---- MODULE Spec2Model ----
(***************************************************************************)
(* IncidentInsightHub: the ingestion / normalization pipeline of           *)
(* src/src/data_processor.py (DataProcessor) as driven by src/app.py.      *)
(*                                                                         *)
(* A DataFrame is a record [cols, rows]: cols is the sequence of column    *)
(* labels (pandas allows the same label twice) and every row is a sequence *)
(* of cells aligned with cols.  A cell is a record [t, s, n]: t is the     *)
(* kind ("null", "text", "num", "ts", "bool"), s the text and n the number *)
(* (hours for a timestamp, counted from 2024-01-01 00:00).                 *)
(***************************************************************************)
EXTENDS Integers, Sequences, FiniteSets, TLC

VARIABLES
    raw_data,        \* DataProcessor.raw_data: None or a DataFrame
    processed_data,  \* DataProcessor.processed_data: None or a DataFrame
    data_loaded,     \* st.session_state.data_loaded
    uploaded,        \* the uploaded_files argument of the latest load_excel_files
    call,            \* the latest call: its name and what each step returned
    st_errors,       \* number of st.error messages the latest call emitted
    mapped,          \* return value of the latest direct standardize_columns call
    reloaded,        \* history: some load replaced raw data that was already there
    report,          \* the latest analyzer call: its name, argument and outcome
    tie_break,       \* how the sort of this build orders rows of equal sort key
    earlier,         \* an analyzer result the caller kept, with the dataset it was for
    health           \* a HealthChecker.wait_for_app_start call: its position and trace

vars == <<raw_data, processed_data, data_loaded, uploaded, call, st_errors, mapped,
          reloaded, report, tie_break, earlier, health>>

None == [none |-> TRUE]

----------------------------------------------------------------------------
(* Cells *)

Null == [t |-> "null", s |-> "", n |-> 0]
Text(x) == [t |-> "text", s |-> x, n |-> 0]
Num(k) == [t |-> "num", s |-> "", n |-> k]
Ts(h) == [t |-> "ts", s |-> "", n |-> h]
Bool(b) == [t |-> "bool", s |-> "", n |-> IF b THEN 1 ELSE 0]

IsNull(c) == c.t = "null"

----------------------------------------------------------------------------
(* Column labels and str.lower().  A label is a string; Spellings lists,   *)
(* for every alias of the synonym table, its lower-case, capitalised and   *)
(* upper-case spelling.  Labels outside the table ("notes", "source_file") *)
(* are lower-case already.                                                 *)

Spellings ==
    { <<"incident_id", "Incident_Id", "INCIDENT_ID">>,
      <<"id", "Id", "ID">>,
      <<"ticket_id", "Ticket_Id", "TICKET_ID">>,
      <<"case_id", "Case_Id", "CASE_ID">>,
      <<"incident_number", "Incident_Number", "INCIDENT_NUMBER">>,
      <<"title", "Title", "TITLE">>,
      <<"summary", "Summary", "SUMMARY">>,
      <<"description", "Description", "DESCRIPTION">>,
      <<"issue_title", "Issue_Title", "ISSUE_TITLE">>,
      <<"incident_title", "Incident_Title", "INCIDENT_TITLE">>,
      <<"category", "Category", "CATEGORY">>,
      <<"type", "Type", "TYPE">>,
      <<"issue_type", "Issue_Type", "ISSUE_TYPE">>,
      <<"incident_type", "Incident_Type", "INCIDENT_TYPE">>,
      <<"priority", "Priority", "PRIORITY">>,
      <<"severity", "Severity", "SEVERITY">>,
      <<"impact", "Impact", "IMPACT">>,
      <<"status", "Status", "STATUS">>,
      <<"state", "State", "STATE">>,
      <<"current_status", "Current_Status", "CURRENT_STATUS">>,
      <<"created_date", "Created_Date", "CREATED_DATE">>,
      <<"create_date", "Create_Date", "CREATE_DATE">>,
      <<"date_created", "Date_Created", "DATE_CREATED">>,
      <<"incident_date", "Incident_Date", "INCIDENT_DATE">>,
      <<"created", "Created", "CREATED">>,
      <<"resolved_date", "Resolved_Date", "RESOLVED_DATE">>,
      <<"resolution_date", "Resolution_Date", "RESOLUTION_DATE">>,
      <<"closed_date", "Closed_Date", "CLOSED_DATE">>,
      <<"date_resolved", "Date_Resolved", "DATE_RESOLVED">>,
      <<"assigned_team", "Assigned_Team", "ASSIGNED_TEAM">>,
      <<"team", "Team", "TEAM">>,
      <<"backend_team", "Backend_Team", "BACKEND_TEAM">>,
      <<"responsible_team", "Responsible_Team", "RESPONSIBLE_TEAM">>,
      <<"resolution_time", "Resolution_Time", "RESOLUTION_TIME">>,
      <<"time_to_resolve", "Time_To_Resolve", "TIME_TO_RESOLVE">>,
      <<"sla_time", "Sla_Time", "SLA_TIME">> }

KnownLabels == UNION {{t[1], t[2], t[3]} : t \in Spellings}

\* the lower-case spelling of every label of the table
LowerTable ==
    [s \in KnownLabels |-> (CHOOSE t \in Spellings : s \in {t[1], t[2], t[3]})[1]]

\* variant: the label is compared as written
lower_AsWritten(s) == s

lower(s) == IF s \in KnownLabels THEN LowerTable[s] ELSE s

----------------------------------------------------------------------------
(* DataFrame helpers *)

\* the sequence with the elements of the function f on 1..n
AsSeq(f) == SubSeq(f, 1, Len(f))

\* the function f with all its values computed
Tabulated(f) == f @@ [x \in {} |-> x]

NRows(df) == Len(df.rows)
NCols(df) == Len(df.cols)
ColIdx(df, name) == {i \in 1..NCols(df) : df.cols[i] = name}
HasCol(df, name) == ColIdx(df, name) # {}
TheCol(df, name) == CHOOSE i \in ColIdx(df, name) : TRUE
Column(df, i) == AsSeq([r \in 1..NRows(df) |-> df.rows[r][i]])

\* df[name] = vals: replaces the column when the label exists, appends it otherwise
SetColumn(df, name, vals) ==
    IF HasCol(df, name)
    THEN [cols |-> df.cols,
          rows |-> AsSeq([r \in 1..NRows(df) |->
                      AsSeq([i \in 1..NCols(df) |->
                          IF df.cols[i] = name THEN vals[r] ELSE df.rows[r][i]])])]
    ELSE [cols |-> Append(df.cols, name),
          rows |-> AsSeq([r \in 1..NRows(df) |-> Append(df.rows[r], vals[r])])]

Ok(df) == [raised |-> FALSE, df |-> df]
Raise == [raised |-> TRUE, df |-> None]

----------------------------------------------------------------------------
(* get_column_mappings: the synonym table, in dict order *)

FieldOrder ==
    << "incident_id", "title", "category", "priority", "status",
       "created_date", "resolved_date", "assigned_team", "resolution_time" >>

\* variant: the alias 'priority' is listed under status as well
get_column_mappings_Misfiled ==
    [ incident_id |-> <<"incident_id", "id", "ticket_id", "case_id", "incident_number">>,
      title |-> <<"title", "summary", "description", "issue_title", "incident_title">>,
      category |-> <<"category", "type", "issue_type", "incident_type">>,
      priority |-> <<"priority", "severity", "impact">>,
      status |-> <<"status", "state", "current_status", "priority">>,
      created_date |-> <<"created_date", "create_date", "date_created", "incident_date", "created">>,
      resolved_date |-> <<"resolved_date", "resolution_date", "closed_date", "date_resolved">>,
      assigned_team |-> <<"assigned_team", "team", "backend_team", "responsible_team">>,
      resolution_time |-> <<"resolution_time", "time_to_resolve", "sla_time">> ]

get_column_mappings ==
    [ incident_id |-> <<"incident_id", "id", "ticket_id", "case_id", "incident_number">>,
      title |-> <<"title", "summary", "description", "issue_title", "incident_title">>,
      category |-> <<"category", "type", "issue_type", "incident_type">>,
      priority |-> <<"priority", "severity", "impact">>,
      status |-> <<"status", "state", "current_status">>,
      created_date |-> <<"created_date", "create_date", "date_created", "incident_date", "created">>,
      resolved_date |-> <<"resolved_date", "resolution_date", "closed_date", "date_resolved">>,
      assigned_team |-> <<"assigned_team", "team", "backend_team", "responsible_team">>,
      resolution_time |-> <<"resolution_time", "time_to_resolve", "sla_time">> ]

\* [v.lower() for v in variations], for every standard name
LoweredVariations ==
    [f \in DOMAIN get_column_mappings |->
        {lower(get_column_mappings[f][k]) : k \in 1..Len(get_column_mappings[f])}]

\* col.lower() in [v.lower() for v in variations]
MatchesVariation(col, standard_name) == lower(col) \in LoweredVariations[standard_name]

\* the first column of df.columns that matches, 0 when none does (the break)
FirstMatch(cols, standard_name) ==
    LET hits == {i \in 1..Len(cols) : MatchesVariation(cols[i], standard_name)}
    IN  IF hits = {} THEN 0 ELSE CHOOSE i \in hits : \A j \in hits : i <= j

\* the dict standardized_columns after the fields k.. of the table were visited
RECURSIVE StandardizedColumns(_, _, _)
StandardizedColumns(cols, k, m) ==
    IF k > Len(FieldOrder) THEN m
    ELSE LET standard_name == FieldOrder[k]
             i == FirstMatch(cols, standard_name)
         IN  StandardizedColumns(cols, k + 1,
                IF i = 0 THEN m
                ELSE [c \in (DOMAIN m) \cup {cols[i]} |->
                        IF c = cols[i] THEN standard_name ELSE m[c]])

EmptyDict == [c \in {} |-> ""]

\* df.rename(columns=standardized_columns)
standardize_columns(df) ==
    LET m == StandardizedColumns(df.cols, 1, EmptyDict)
    IN  [cols |-> AsSeq([i \in 1..NCols(df) |->
                     IF df.cols[i] \in DOMAIN m THEN m[df.cols[i]] ELSE df.cols[i]]),
         rows |-> df.rows]

----------------------------------------------------------------------------
(* add_missing_columns *)

required_columns ==
    << "incident_id", "title", "category", "priority", "status",
       "created_date", "resolved_date", "assigned_team" >>

TextColumns == {"title", "category", "priority", "status", "assigned_team"}
date_columns == <<"created_date", "resolved_date">>

\* variant: the sequential ids start at 0 (range(len(df)))
DefaultColumn_FromZero(df, col, now) ==
    AsSeq([r \in 1..NRows(df) |->
        IF col = "incident_id" THEN Num(r - 1)
        ELSE IF col \in TextColumns THEN Text("Unknown")
        ELSE Ts(now)])

\* the default column for a missing required column; now is datetime.now()
DefaultColumn(df, col, now) ==
    AsSeq([r \in 1..NRows(df) |->
        IF col = "incident_id" THEN Num(r)
        ELSE IF col \in TextColumns THEN Text("Unknown")
        ELSE Ts(now)])

\* nowC and nowR are the two datetime.now() readings (created, resolved)
RECURSIVE AddMissing(_, _, _, _)
AddMissing(df, k, nowC, nowR) ==
    IF k > Len(required_columns) THEN df
    ELSE LET col == required_columns[k]
             now == IF col = "created_date" THEN nowC ELSE nowR
         IN  AddMissing(IF HasCol(df, col) THEN df
                        ELSE SetColumn(df, col, DefaultColumn(df, col, now)),
                        k + 1, nowC, nowR)

add_missing_columns(df, nowC, nowR) == AddMissing(df, 1, nowC, nowR)

----------------------------------------------------------------------------
(* convert_date_columns: pd.to_datetime(df[col], errors='coerce') *)

\* the date texts pandas can parse, with their hour since 2024-01-01 00:00
DateText ==
    ("2024-01-01" :> 0) @@ ("2024-01-02" :> 24) @@ ("2024-01-03" :> 48) @@
    ("2024-01-08" :> 168) @@ ("2024-02-01" :> 744)

\* variant: errors='ignore', a text that is no date is returned as it is
to_datetime_Ignore(c) ==
    CASE c.t = "null" -> Null
      [] c.t = "ts" -> c
      [] c.t = "text" -> IF c.s \in DOMAIN DateText THEN Ts(DateText[c.s]) ELSE c

to_datetime(c) ==
    CASE c.t = "null" -> Null
      [] c.t = "ts" -> c
      [] c.t = "text" -> IF c.s \in DOMAIN DateText THEN Ts(DateText[c.s]) ELSE Null

\* df[col] with a label carried by two columns is a DataFrame, which
\* pd.to_datetime cannot assemble: ValueError
RECURSIVE ConvertDates(_, _)
ConvertDates(df, k) ==
    IF k > Len(date_columns) THEN Ok(df)
    ELSE LET col == date_columns[k]
         IN  IF ~HasCol(df, col) THEN ConvertDates(df, k + 1)
             ELSE IF Cardinality(ColIdx(df, col)) > 1 THEN Raise
             ELSE ConvertDates(
                    SetColumn(df, col,
                        AsSeq([r \in 1..NRows(df) |->
                                 to_datetime(df.rows[r][TheCol(df, col)])])),
                    k + 1)

convert_date_columns(df) == ConvertDates(df, 1)

----------------------------------------------------------------------------
(* calculate_derived_fields *)

MonthText ==
    << "2024-01", "2024-02", "2024-03", "2024-04", "2024-05", "2024-06",
       "2024-07", "2024-08", "2024-09", "2024-10", "2024-11", "2024-12" >>

DaysInMonth == <<31, 29, 31, 30, 31, 30, 31, 31, 30, 31, 30, 31>>

WeekText ==
    << "2024-W00", "2024-W01", "2024-W02", "2024-W03", "2024-W04", "2024-W05",
       "2024-W06", "2024-W07", "2024-W08", "2024-W09", "2024-W10", "2024-W11",
       "2024-W12", "2024-W13", "2024-W14", "2024-W15", "2024-W16", "2024-W17",
       "2024-W18", "2024-W19", "2024-W20", "2024-W21", "2024-W22", "2024-W23",
       "2024-W24", "2024-W25", "2024-W26", "2024-W27", "2024-W28", "2024-W29",
       "2024-W30", "2024-W31", "2024-W32", "2024-W33", "2024-W34", "2024-W35",
       "2024-W36", "2024-W37", "2024-W38", "2024-W39", "2024-W40", "2024-W41",
       "2024-W42", "2024-W43", "2024-W44", "2024-W45", "2024-W46", "2024-W47",
       "2024-W48", "2024-W49", "2024-W50", "2024-W51", "2024-W52" >>

RECURSIVE DaysBefore(_)
DaysBefore(m) == IF m = 0 THEN 0 ELSE DaysBefore(m - 1) + DaysInMonth[m]

DayOfYear(h) == h \div 24
MonthOf(h) ==
    CHOOSE m \in 1..12 : DaysBefore(m - 1) <= DayOfYear(h) /\ DayOfYear(h) < DaysBefore(m)

\* variant: a null date is formatted as the text 'NaT'
strftime_month_NaT(c) == IF c.t = "ts" THEN Text(MonthText[MonthOf(c.n)]) ELSE Text("NaT")

\* strftime('%Y-%m') and strftime('%Y-W%U'): 2024-01-01 is a Monday, so the
\* week of the year that starts on Sunday is (day of year + 1) div 7
strftime_month(c) == IF c.t = "ts" THEN Text(MonthText[MonthOf(c.n)]) ELSE Null
strftime_week(c) ==
    IF c.t = "ts" THEN Text(WeekText[((DayOfYear(c.n) + 1) \div 7) + 1]) ELSE Null

\* variant: the elapsed time without its sign
ElapsedHours_Unsigned(created, resolved) ==
    IF created.t = "ts" /\ resolved.t = "ts"
    THEN Num(IF resolved.n >= created.n THEN resolved.n - created.n
             ELSE created.n - resolved.n)
    ELSE Null

\* (resolved_date - created_date).dt.total_seconds() / 3600
ElapsedHours(created, resolved) ==
    IF created.t = "ts" /\ resolved.t = "ts" THEN Num(resolved.n - created.n) ELSE Null

WithResolutionTime(df) ==
    IF HasCol(df, "resolution_time") THEN df
    ELSE SetColumn(df, "resolution_time",
            AsSeq([r \in 1..NRows(df) |->
                ElapsedHours(df.rows[r][TheCol(df, "created_date")],
                             df.rows[r][TheCol(df, "resolved_date")])]))

WithBuckets(df) ==
    LET c == TheCol(df, "created_date")
        m == SetColumn(df, "month_year",
                AsSeq([r \in 1..NRows(df) |-> strftime_month(df.rows[r][c])]))
    IN  SetColumn(m, "week_year",
                AsSeq([r \in 1..NRows(df) |-> strftime_week(df.rows[r][c])]))

\* resolution_time > 24: NaN compares False; a str cell raises TypeError
Threshold24 == 24
\* variant: a resolution time equal to the threshold counts as overdue
IsOverdue_AtLeast(c) == c.t = "num" /\ c.n >= Threshold24

IsOverdue(c) == c.t = "num" /\ c.n > Threshold24

\* df['resolution_time'] with the label carried twice is a DataFrame, and a
\* DataFrame cannot be assigned to the single column is_overdue: ValueError
WithOverdue(df) ==
    IF Cardinality(ColIdx(df, "resolution_time")) > 1 THEN Raise
    ELSE LET c == TheCol(df, "resolution_time")
         IN  IF \E r \in 1..NRows(df) : df.rows[r][c].t = "text" THEN Raise
             ELSE Ok(SetColumn(df, "is_overdue",
                        AsSeq([r \in 1..NRows(df) |-> Bool(IsOverdue(df.rows[r][c]))])))

calculate_derived_fields(df) == WithOverdue(WithBuckets(WithResolutionTime(df)))

----------------------------------------------------------------------------
(* Inputs of a session: the spreadsheets a user can upload *)

MaxFiles == 2

FileA == [name |-> "a.xlsx", readable |-> TRUE,
          cols |-> <<"Summary", "Priority", "sla_time">>,
          rows |-> << <<Text("Database outage"), Text("Critical"), Num(5)>>,
                      <<Text("Login failure"), Null, Num(30)>> >>]
FileB == [name |-> "b.xlsx", readable |-> TRUE,
          cols |-> <<"Title", "created", "closed_date">>,
          rows |-> << <<Text("Apply hotfix"), Text("2024-01-02"), Text("2024-02-01")>>,
                      <<Text("Database outage"), Text("not a date"), Text("2024-01-03")>> >>]
FileC == [name |-> "c.xlsx", readable |-> TRUE,
          cols |-> <<"created", "created_date">>,
          rows |-> << <<Text("2024-01-01"), Text("2024-01-08")>> >>]
FileX == [name |-> "x.xlsx", readable |-> FALSE, cols |-> <<>>, rows |-> <<>>]

FileCatalog == {FileA, FileB, FileC, FileX}

UploadLists == UNION {[1..n -> FileCatalog] : n \in 0..MaxFiles}

\* the readings datetime.now() can return during one preprocess_data call
Clock == {792, 793}

----------------------------------------------------------------------------
(* load_excel_files *)

\* pd.read_excel(file) followed by df['source_file'] = file.name
ReadFile(file) ==
    LET df == [cols |-> file.cols, rows |-> file.rows]
    IN  SetColumn(df, "source_file", AsSeq([r \in 1..NRows(df) |-> Text(file.name)]))

\* variant: the loop ends at the first file that cannot be read
RECURSIVE AllData_StopAtFirstError(_, _)
AllData_StopAtFirstError(files, k) ==
    IF k > Len(files) THEN <<>>
    ELSE IF files[k].readable
         THEN <<ReadFile(files[k])>> \o AllData_StopAtFirstError(files, k + 1)
         ELSE <<>>

\* all_data after the loop: the frames of the files that could be read
RECURSIVE AllData(_, _)
AllData(files, k) ==
    IF k > Len(files) THEN <<>>
    ELSE IF files[k].readable
         THEN <<ReadFile(files[k])>> \o AllData(files, k + 1)
         ELSE AllData(files, k + 1)

FailedReads(files) == Cardinality({k \in 1..Len(files) : ~files[k].readable})

\* pd.concat(all_data, ignore_index=True): the union of the labels in order
\* of first appearance, NaN where a frame has no such column
RECURSIVE ConcatCols(_, _, _)
ConcatCols(frames, k, acc) ==
    IF k > Len(frames) THEN acc
    ELSE ConcatCols(frames, k + 1,
            acc \o SelectSeq(frames[k].cols,
                             LAMBDA c : \A i \in 1..Len(acc) : acc[i] # c))

Reindex(df, cols) ==
    AsSeq([r \in 1..NRows(df) |->
        AsSeq([i \in 1..Len(cols) |->
            IF HasCol(df, cols[i]) THEN df.rows[r][TheCol(df, cols[i])] ELSE Null])])

\* variant: the rows of a later frame come before those of an earlier one
RECURSIVE ConcatRows_NewestFirst(_, _, _)
ConcatRows_NewestFirst(frames, k, cols) ==
    IF k > Len(frames) THEN <<>>
    ELSE ConcatRows_NewestFirst(frames, k + 1, cols) \o Reindex(frames[k], cols)

RECURSIVE ConcatRows(_, _, _)
ConcatRows(frames, k, cols) ==
    IF k > Len(frames) THEN <<>>
    ELSE Reindex(frames[k], cols) \o ConcatRows(frames, k + 1, cols)

concat(frames) ==
    LET cols == ConcatCols(frames, 1, <<>>)
    IN  [cols |-> cols, rows |-> ConcatRows(frames, 1, cols)]

\* lines 24-44: the return value, the frame assigned to raw_data (None when
\* all_data is empty and nothing is assigned) and the st.error count
LoadOutcome(files) ==
    LET all_data == AllData(files, 1)
    IN  IF all_data # <<>>
        THEN [ret |-> "True", frame |-> concat(all_data), errors |-> FailedReads(files)]
        ELSE [ret |-> "False", frame |-> None, errors |-> FailedReads(files)]

\* LoadOutcome on the upload lists of a session, computed once
LoadTable == Tabulated([files \in UploadLists |-> LoadOutcome(files)])

\* every list of files a call is given is one of UploadLists
RunLoad(files) == LoadTable[files]

\* variant: the new frames are appended to the raw data already held
LoadReturn_Appending(out, cur) ==
    [ret |-> out.ret,
     raw |-> IF out.ret = "True"
             THEN (IF cur = None THEN out.frame ELSE concat(<<cur, out.frame>>))
             ELSE cur,
     errors |-> out.errors]

load_excel_files_Appending(files, cur) == LoadReturn_Appending(RunLoad(files), cur)

\* self.raw_data = pd.concat(...) and return True, or return False
LoadReturn(out, cur) ==
    [ret |-> out.ret,
     raw |-> IF out.ret = "True" THEN out.frame ELSE cur,
     errors |-> out.errors]

\* what the call returns and leaves in raw_data; cur is raw_data
load_excel_files(files, cur) == LoadReturn(RunLoad(files), cur)

\* the frames a load can leave in raw_data
SessionFrames == {LoadTable[files].frame : files \in UploadLists} \ {None}

----------------------------------------------------------------------------
(* preprocess_data *)

\* the body of the try block, on df = self.raw_data.copy()
Pipeline(df, nowC, nowR) ==
    LET dated == convert_date_columns(
                    add_missing_columns(standardize_columns(df), nowC, nowR))
    IN  IF dated.raised THEN Raise ELSE calculate_derived_fields(dated.df)

\* Pipeline on the frames of a session, computed once
PipelineTable ==
    Tabulated([a \in SessionFrames \X Clock \X Clock |-> Pipeline(a[1], a[2], a[3])])

Lookup(table, x, computed) == IF x \in DOMAIN table THEN table[x] ELSE computed

RunPipeline(df, nowC, nowR) ==
    Lookup(PipelineTable, <<df, nowC, nowR>>, Pipeline(df, nowC, nowR))

\* variant: the pipeline runs outside any try block
PreprocessReturn_NoExcept(out, cur) ==
    IF out.raised
    THEN [ret |-> "raise", processed |-> cur, errors |-> 0]
    ELSE [ret |-> "True", processed |-> out.df, errors |-> 0]

preprocess_data_NoExcept(raw, cur, nowC, nowR) ==
    IF raw = None
    THEN [ret |-> "False", processed |-> cur, errors |-> 0]
    ELSE PreprocessReturn_NoExcept(RunPipeline(raw, nowC, nowR), cur)

\* variant: the except branch drops the dataset held
PreprocessReturn_Clearing(out, cur) ==
    IF out.raised
    THEN [ret |-> "False", processed |-> None, errors |-> 1]
    ELSE [ret |-> "True", processed |-> out.df, errors |-> 0]

\* self.processed_data = df and return True, or the except branch
PreprocessReturn(out, cur) ==
    IF out.raised
    THEN [ret |-> "False", processed |-> cur, errors |-> 1]
    ELSE [ret |-> "True", processed |-> out.df, errors |-> 0]

\* what the call returns and leaves in processed_data; cur is processed_data
preprocess_data(raw, cur, nowC, nowR) ==
    IF raw = None
    THEN [ret |-> "False", processed |-> cur, errors |-> 0]
    ELSE PreprocessReturn(RunPipeline(raw, nowC, nowR), cur)

\* variant: the steps run on self.raw_data itself
RawDataAfter_NoCopy(raw, out) == IF out.ret = "True" THEN out.processed ELSE raw

\* raw_data after preprocess_data: df = self.raw_data.copy(), and every step
\* assigns to df
RawDataAfter(raw, out) == raw

----------------------------------------------------------------------------
(* A session of the app: load_excel_files, preprocess_data, and the        *)
(* "Process Files" button of app.py that chains them                       *)

Init ==
    /\ raw_data = None
    /\ processed_data = None
    /\ data_loaded = FALSE
    /\ uploaded = <<>>
    /\ call = [op |-> "init", load |-> "none", pre |-> "none"]
    /\ st_errors = 0
    /\ mapped = None
    /\ reloaded = FALSE
    /\ report = None
    /\ tie_break = "stable"
    /\ earlier = None
    /\ health = None

LoadExcelFiles ==
    \E files \in UploadLists :
        \E out \in {load_excel_files(files, raw_data)} :
            /\ raw_data' = out.raw
            /\ uploaded' = files
            /\ call' = [op |-> "load_excel_files", load |-> out.ret, pre |-> "none"]
            /\ st_errors' = out.errors
            /\ reloaded' = (reloaded \/ (out.ret = "True" /\ raw_data # None))
            /\ UNCHANGED <<processed_data, data_loaded, mapped, report, tie_break, earlier,
                           health>>

PreprocessData ==
    \E nowC \in Clock, nowR \in Clock :
        /\ nowC <= nowR
        /\ \E out \in {preprocess_data(raw_data, processed_data, nowC, nowR)} :
               /\ processed_data' = out.processed
               /\ raw_data' = RawDataAfter(raw_data, out)
               /\ call' = [op |-> "preprocess_data", load |-> "none", pre |-> out.ret]
               /\ st_errors' = out.errors
        /\ UNCHANGED <<data_loaded, uploaded, mapped, reloaded, report, tie_break,
                       earlier, health>>

\* app.py: if uploaded_files: ... if st.button("Process Files"): ...
ProcessFiles ==
    \E files \in UploadLists \ {<<>>}, nowC \in Clock, nowR \in Clock :
        /\ nowC <= nowR
        /\ \E ld \in {load_excel_files(files, raw_data)} :
           \E pp \in {preprocess_data(ld.raw, processed_data, nowC, nowR)} :
               /\ uploaded' = files
               /\ reloaded' = (reloaded \/ (ld.ret = "True" /\ raw_data # None))
               /\ IF ld.ret = "True"
                  THEN /\ raw_data' = RawDataAfter(ld.raw, pp)
                       /\ processed_data' = pp.processed
                       /\ data_loaded' = IF pp.ret = "True" THEN TRUE ELSE data_loaded
                       /\ call' = [op |-> "process_files", load |-> ld.ret, pre |-> pp.ret]
                       /\ st_errors' = ld.errors + pp.errors
                                        + (IF pp.ret = "True" THEN 0 ELSE 1)
                  ELSE /\ raw_data' = ld.raw
                       /\ UNCHANGED <<processed_data, data_loaded>>
                       /\ call' = [op |-> "process_files", load |-> ld.ret, pre |-> "none"]
                       /\ st_errors' = ld.errors + 1
        /\ UNCHANGED <<mapped, report, tie_break, earlier, health>>

Next == LoadExcelFiles \/ PreprocessData \/ ProcessFiles

Spec == Init /\ [][Next]_vars

\* a session in which the processor is driven by the button only
NextApp == ProcessFiles

SpecApp == Init /\ [][NextApp]_vars

----------------------------------------------------------------------------
(* Tables handed to the processor directly (processor.raw_data = df), for  *)
(* the properties of standardize_columns and of the normalization steps    *)

MaxCols == 2
MaxRows == 2

CanonicalFields == {FieldOrder[k] : k \in 1..Len(FieldOrder)}

\* the canonical field a label is an alias of, "none" for an unmapped label
FieldOf(label) ==
    IF \E f \in CanonicalFields : MatchesVariation(label, f)
    THEN CHOOSE f \in CanonicalFields : MatchesVariation(label, f)
    ELSE "none"

ColPool == CanonicalFields \cup {"Summary", "created", "sla_time", "notes"}

ColSeqs ==
    UNION {{cs \in [1..n -> ColPool] : \A i, j \in 1..n : i # j => cs[i] # cs[j]}
           : n \in 1..MaxCols}

\* the cells of a source column, row by row
DateRow == <<"2024-01-01", "2024-01-03", "2024-02-01", "2024-01-08">>
HoursRow == <<5, 30, 24, 72>>
WordRow == <<"alpha", "beta", "gamma", "delta">>

\* a column is "full", has an empty first cell ("gap"), or (dates only) has
\* a first cell that is no date ("bad")
FillsOf(label) ==
    IF FieldOf(label) \in {"created_date", "resolved_date"}
    THEN {"full", "gap", "bad"} ELSE {"full", "gap"}

SourceCell(label, r, fill) ==
    IF r = 1 /\ fill = "gap" THEN Null
    ELSE IF r = 1 /\ fill = "bad" THEN Text("not a date")
    ELSE IF FieldOf(label) \in {"created_date", "resolved_date"} THEN Text(DateRow[r])
    ELSE IF FieldOf(label) = "resolution_time" THEN Num(HoursRow[r])
    ELSE Text(WordRow[r])

MakeTable(cs, n, fills) ==
    [cols |-> cs,
     rows |-> AsSeq([r \in 1..n |->
                AsSeq([i \in 1..Len(cs) |-> SourceCell(cs[i], r, fills[i])])])]

TablesOn(cs) ==
    {MakeTable(cs, n, fills) :
        n \in 0..MaxRows,
        fills \in {fl \in [1..Len(cs) -> {"full", "gap", "bad"}] :
                     \A i \in 1..Len(cs) : fl[i] \in FillsOf(cs[i])}}

\* every table over the pool, and every one-column table whose label is an
\* alias of the synonym table in any of its spellings
PoolTables == UNION {TablesOn(cs) : cs \in ColSeqs}
AliasTables == UNION {TablesOn(<<label>>) : label \in KnownLabels}
Tables == PoolTables \cup AliasTables

InitTable ==
    /\ raw_data \in Tables
    /\ processed_data = None
    /\ data_loaded = FALSE
    /\ uploaded = <<>>
    /\ call = [op |-> "init", load |-> "none", pre |-> "none"]
    /\ st_errors = 0
    /\ mapped = None
    /\ reloaded = FALSE
    /\ report = None
    /\ tie_break = "stable"
    /\ earlier = None
    /\ health = None

\* a direct call of standardize_columns on the table
StandardizeColumns ==
    /\ raw_data # None
    /\ call.op = "init"
    /\ mapped' = standardize_columns(raw_data)
    /\ call' = [op |-> "standardize_columns", load |-> "none", pre |-> "none"]
    /\ UNCHANGED <<raw_data, processed_data, data_loaded, uploaded, st_errors, reloaded,
                   report, tie_break, earlier, health>>

\* one preprocess_data call on the table
NormalizeTable ==
    /\ call.pre = "none"
    /\ PreprocessData

NextTable == StandardizeColumns \/ NormalizeTable

SpecTable == InitTable /\ [][NextTable]_vars

----------------------------------------------------------------------------
(* The analyzers of src/src/analyzers.py.  Each is a function of the       *)
(* dataset it was constructed with; its outcome is the value returned or   *)
(* an exception that reaches the caller.  A float result is kept as the    *)
(* exact quotient [num, den] in lowest terms; den = 0 stands for NaN       *)
(* (num = 0) and for inf (num = 1).                                        *)

\* a table was returned (its rows), None was returned, an exception was raised
Returned(rows) == [raised |-> FALSE, none |-> FALSE, rows |-> rows]
ReturnedNone == [raised |-> FALSE, none |-> TRUE, rows |-> <<>>]
Raised == [raised |-> TRUE, none |-> FALSE, rows |-> <<>>]

RECURSIVE Gcd(_, _)
Gcd(a, b) == IF b = 0 THEN a ELSE Gcd(b, a % b)

Abs(k) == IF k < 0 THEN -k ELSE k

\* n / d as pandas computes it on numeric columns (no ZeroDivisionError)
Divide(n, d) ==
    IF d = 0 THEN [num |-> IF n = 0 THEN 0 ELSE IF n > 0 THEN 1 ELSE -1, den |-> 0]
    ELSE [num |-> n \div Gcd(Abs(n), d), den |-> d \div Gcd(Abs(n), d)]

\* the records of data whose positions are in keep, in the order of data
RowsAt(data, keep) == SelectSeq(AsSeq([r \in 1..NRows(data) |-> r]), LAMBDA r : r \in keep)

RECURSIVE SumOf(_, _)
SumOf(cells, k) ==
    IF k > Len(cells) THEN 0
    ELSE (IF cells[k].t = "num" THEN cells[k].n ELSE 0) + SumOf(cells, k + 1)

CountOf(cells) == Cardinality({k \in 1..Len(cells) : ~IsNull(cells[k])})

\* Series.mean(): the mean of the non-null values, NaN when there is none
Mean(cells) == Divide(SumOf(cells, 1), CountOf(cells))

\* a column is of object dtype, and has the .str accessor, when it holds a text
HasStrAccessor(data, name) ==
    /\ Cardinality(ColIdx(data, name)) = 1
    /\ \E r \in 1..NRows(data) : data.rows[r][TheCol(data, name)].t = "text"

\* data is None or data.empty
NoData(data) == data = None \/ NRows(data) = 0 \/ NCols(data) = 0

----------------------------------------------------------------------------
(* SLAAnalyzer *)

\* self.sla_thresholds, in dict order
sla_thresholds ==
    << [priority |-> "Critical", threshold |-> 4],
       [priority |-> "High", threshold |-> 8],
       [priority |-> "Medium", threshold |-> 24],
       [priority |-> "Low", threshold |-> 72] >>

\* the labels a priority text contains as a substring, whatever the case
ContainedLabels ==
    ("Critical" :> {"Critical"}) @@ ("CRITICAL" :> {"Critical"}) @@
    ("Critical/High" :> {"Critical", "High"}) @@ ("high" :> {"High"}) @@
    ("Medium" :> {"Medium"}) @@ ("low" :> {"Low"}) @@ ("Lowest" :> {"Low"}) @@
    ("Unknown" :> {}) @@ ("P1" :> {})

\* variant: the cell must equal the label (== instead of str.contains)
str_contains_WholeCell(c, priority) == c.t = "text" /\ c.s = priority

\* str.contains(priority, case=False, na=False) on one cell
str_contains(c, priority) ==
    /\ c.t = "text"
    /\ c.s \in DOMAIN ContainedLabels
    /\ priority \in ContainedLabels[c.s]

\* priority_data: the positions of the records that match the label
PriorityData(data, priority) ==
    {r \in 1..NRows(data) : str_contains(data.rows[r][TheCol(data, "priority")], priority)}

\* variant: the threshold itself is already a miss (< instead of <=)
WithinThreshold_Strict(c, threshold) == c.t = "num" /\ c.n < threshold

\* priority_data['resolution_time'] <= threshold: NaN compares False
WithinThreshold(c, threshold) == c.t = "num" /\ c.n <= threshold

MetSla(data, matched, threshold) ==
    {r \in matched : WithinThreshold(data.rows[r][TheCol(data, "resolution_time")], threshold)}

\* the dict appended to sla_analysis for one label
SlaRow(data, entry, matched) ==
    [Priority |-> entry.priority,
     Total_Incidents |-> Cardinality(matched),
     SLA_Met |-> Cardinality(MetSla(data, matched, entry.threshold)),
     SLA_Percentage |-> Divide(Cardinality(MetSla(data, matched, entry.threshold)) * 100,
                               Cardinality(matched)),
     Avg_Resolution_Time |->
        Mean(AsSeq([k \in 1..Len(RowsAt(data, matched)) |->
                data.rows[RowsAt(data, matched)[k]][TheCol(data, "resolution_time")]])),
     SLA_Threshold |-> entry.threshold]

RECURSIVE SlaAnalysis(_, _)
SlaAnalysis(data, k) ==
    IF k > Len(sla_thresholds) THEN <<>>
    ELSE (IF PriorityData(data, sla_thresholds[k].priority) # {}
          THEN <<SlaRow(data, sla_thresholds[k],
                        PriorityData(data, sla_thresholds[k].priority))>>
          ELSE <<>>)
         \o SlaAnalysis(data, k + 1)

\* the .str accessor of a column without any text raises AttributeError,
\* and there is no try block around it
analyze_sla_performance(data) ==
    IF NoData(data) THEN ReturnedNone
    ELSE IF ~HasStrAccessor(data, "priority") THEN Raised
    ELSE Returned(SlaAnalysis(data, 1))

\* ChartGenerator.create_sla_performance_chart:
\* sla_data['SLA_Missed'] = sla_data['Total_Incidents'] - sla_data['SLA_Met']
SLA_Missed(row) == row.Total_Incidents - row.SLA_Met

----------------------------------------------------------------------------
(* RecurringIssuesAnalyzer *)

\* the texts of the datasets in the order Python sorts them (by code point)
TextOrder ==
    << "2024-01", "2024-02", "Alpha", "Apply hotfix", "Critical", "Critical/High",
       "Database", "Database outage", "Login failure", "Medium", "Network",
       "Remove LEGACY Workaround", "Unknown", "Zeta", "alpha", "beta", "delta", "gamma",
       "high", "low" >>

Rank(x) == CHOOSE k \in 1..Len(TextOrder) : TextOrder[k] = x

\* key1 sorts before key2; a key is a tuple of texts
RECURSIVE KeyBefore(_, _)
KeyBefore(key1, key2) ==
    IF key1 = <<>> THEN FALSE
    ELSE \/ Rank(Head(key1)) < Rank(Head(key2))
         \/ (Head(key1) = Head(key2) /\ KeyBefore(Tail(key1), Tail(key2)))

\* the key of record r under the columns by; groupby drops a key with a null
KeyOf(data, r, by) == AsSeq([k \in 1..Len(by) |-> data.rows[r][TheCol(data, by[k])]])
HasKey(data, r, by) == \A k \in 1..Len(by) : ~IsNull(data.rows[r][TheCol(data, by[k])])
KeyTexts(key) == AsSeq([k \in 1..Len(key) |-> key[k].s])

GroupKeys(data, by) ==
    {KeyTexts(KeyOf(data, r, by)) : r \in {q \in 1..NRows(data) : HasKey(data, q, by)}}

\* groupby(by) with sort=True: the keys in sorted order
RECURSIVE SortedKeys(_)
SortedKeys(keys) ==
    IF keys = {} THEN <<>>
    ELSE LET first == CHOOSE key \in keys : \A other \in keys \ {key} : KeyBefore(key, other)
         IN  <<first>> \o SortedKeys(keys \ {first})

\* the positions of the records of one group
Members(data, by, key) ==
    {r \in 1..NRows(data) : HasKey(data, r, by) /\ KeyTexts(KeyOf(data, r, by)) = key}

\* the cells of column name in the records of a group, in record order
GroupCells(data, members, name) ==
    AsSeq([k \in 1..Len(RowsAt(data, members)) |->
        data.rows[RowsAt(data, members)[k]][TheCol(data, name)]])

Occurrences(cells, c) == Cardinality({k \in 1..Len(cells) : cells[k] = c})

\* Series.mode(): the non-null values that occur most often
Modes(cells) ==
    {cells[k] : k \in {i \in 1..Len(cells) :
        /\ ~IsNull(cells[i])
        /\ \A j \in 1..Len(cells) :
              ~IsNull(cells[j]) => Occurrences(cells, cells[j]) <= Occurrences(cells, cells[i])}}

\* x.mode().iloc[0]: mode() returns its values sorted
FirstMode(cells) ==
    CHOOSE c \in Modes(cells) : \A d \in Modes(cells) : Rank(c.s) <= Rank(d.s)

\* one row of the aggregation
RecurringRow(data, key, members) ==
    [category |-> key[1],
     title |-> key[2],
     frequency |-> CountOf(GroupCells(data, members, "incident_id")),
     resolution_time |-> Mean(GroupCells(data, members, "resolution_time")),
     assigned_team |-> FirstMode(GroupCells(data, members, "assigned_team")).s]

\* the rows without the one at position k
Without(rows, k) ==
    AsSeq([i \in 1..(Len(rows) - 1) |-> IF i < k THEN rows[i] ELSE rows[i + 1]])

\* the positions of the rows with the greatest value in column
TopPositions(rows, column) ==
    {k \in 1..Len(rows) : \A j \in 1..Len(rows) : rows[j][column] <= rows[k][column]}

\* variant: the order of equal rows depends on whether an analyzer ran before
PickTie_ByHistory(top, tie) ==
    IF report = None THEN CHOOSE k \in top : \A j \in top : k <= j
    ELSE CHOOSE k \in top : \A j \in top : j <= k

\* among rows of equal value a stable sort takes the first, the other the last
PickTie(top, tie) ==
    IF tie = "stable" THEN CHOOSE k \in top : \A j \in top : k <= j
    ELSE CHOOSE k \in top : \A j \in top : j <= k

\* sort_values(column, ascending=False), default kind 'quicksort': not stable
RECURSIVE SortDescending(_, _, _)
SortFrom(rows, column, tie, pick) ==
    <<rows[pick]>> \o SortDescending(Without(rows, pick), column, tie)

SortDescending(rows, column, tie) ==
    IF rows = <<>> THEN <<>>
    ELSE SortFrom(rows, column, tie, PickTie(TopPositions(rows, column), tie))

head(rows, n) == SubSeq(rows, 1, IF n < Len(rows) THEN n ELSE Len(rows))

\* every label of names is carried by exactly one column of data
SingleColumns(data, names) == \A name \in names : Cardinality(ColIdx(data, name)) = 1

RecurringRows(data, keys) ==
    AsSeq([k \in 1..Len(keys) |->
        RecurringRow(data, keys[k], Members(data, <<"category", "title">>, keys[k]))])

\* a group whose assigned_team is all null has an empty mode(), and iloc[0]
\* raises IndexError; a label carried by two columns makes groupby raise
\* ValueError; the except branch turns both into None
RecurringIssuesFail(data) ==
    \/ ~SingleColumns(data, {"category", "title", "incident_id", "resolution_time",
                              "assigned_team"})
    \/ \E key \in GroupKeys(data, <<"category", "title">>) :
          Modes(GroupCells(data, Members(data, <<"category", "title">>, key),
                           "assigned_team")) = {}

get_top_recurring_issues(data, top_n, tie) ==
    IF NoData(data) THEN ReturnedNone
    ELSE IF RecurringIssuesFail(data) THEN ReturnedNone
    ELSE Returned(head(SortDescending(
                          RecurringRows(data, SortedKeys(GroupKeys(data, <<"category", "title">>))),
                          "frequency", tie),
                       top_n))

----------------------------------------------------------------------------
(* TeamAnalyzer *)

\* is_overdue 'sum': the number of True cells
OverdueSum(cells) == Cardinality({k \in 1..Len(cells) : cells[k].t = "bool" /\ cells[k].n = 1})

TeamRow(data, key, members) ==
    [assigned_team |-> key[1],
     month_year |-> key[2],
     total_incidents |-> CountOf(GroupCells(data, members, "incident_id")),
     resolution_time |-> Mean(GroupCells(data, members, "resolution_time")),
     overdue_incidents |-> OverdueSum(GroupCells(data, members, "is_overdue")),
     overdue_percentage |->
        Divide(OverdueSum(GroupCells(data, members, "is_overdue")) * 100,
               CountOf(GroupCells(data, members, "incident_id")))]

TeamRows(data, keys) ==
    AsSeq([k \in 1..Len(keys) |->
        TeamRow(data, keys[k], Members(data, <<"assigned_team", "month_year">>, keys[k]))])

\* no try block: the ValueError of groupby on a label carried by two columns
\* reaches the caller
analyze_team_trends(data) ==
    IF NoData(data) THEN ReturnedNone
    ELSE IF ~SingleColumns(data, {"assigned_team", "month_year", "incident_id",
                                   "resolution_time", "is_overdue"}) THEN Raised
    ELSE Returned(TeamRows(data, SortedKeys(GroupKeys(data, <<"assigned_team", "month_year">>))))

----------------------------------------------------------------------------
(* TeamAnalyzer.get_team_performance_summary *)

TeamSummaryRow(data, key, members) ==
    [assigned_team |-> key[1],
     total_incidents |-> CountOf(GroupCells(data, members, "incident_id")),
     resolution_time |-> Mean(GroupCells(data, members, "resolution_time")),
     overdue_incidents |-> OverdueSum(GroupCells(data, members, "is_overdue"))]

TeamSummaryRows(data, keys) ==
    AsSeq([k \in 1..Len(keys) |->
        TeamSummaryRow(data, keys[k], Members(data, <<"assigned_team">>, keys[k]))])

\* no try block here either
get_team_performance_summary(data) ==
    IF NoData(data) THEN ReturnedNone
    ELSE IF ~SingleColumns(data, {"assigned_team", "incident_id", "resolution_time",
                                   "is_overdue"}) THEN Raised
    ELSE Returned(TeamSummaryRows(data, SortedKeys(GroupKeys(data, <<"assigned_team">>))))

----------------------------------------------------------------------------
(* TechDebtAnalyzer *)

\* self.tech_debt_keywords
tech_debt_keywords ==
    << "legacy", "outdated", "deprecated", "technical debt", "refactor",
       "workaround", "hack", "temporary fix", "hotfix", "patch" >>

\* the substrings of a title that are a keyword, read with case (first
\* table) and whatever the case (second table)
KeywordsAsWritten ==
    ("Database outage" :> {}) @@ ("Login failure" :> {}) @@
    ("Apply hotfix" :> {"hotfix"}) @@ ("Remove LEGACY Workaround" :> {}) @@
    ("Unknown" :> {})
KeywordsAnyCase ==
    ("Database outage" :> {}) @@ ("Login failure" :> {}) @@
    ("Apply hotfix" :> {"hotfix"}) @@
    ("Remove LEGACY Workaround" :> {"legacy", "workaround"}) @@
    ("Unknown" :> {})

\* variant: the pattern is matched with case (case=True)
title_contains_WithCase(c) ==
    /\ c.t = "text"
    /\ c.s \in DOMAIN KeywordsAsWritten
    /\ \E k \in 1..Len(tech_debt_keywords) : tech_debt_keywords[k] \in KeywordsAsWritten[c.s]

\* str.contains('|'.join(self.tech_debt_keywords), case=False, na=False)
title_contains(c) ==
    /\ c.t = "text"
    /\ c.s \in DOMAIN KeywordsAnyCase
    /\ \E k \in 1..Len(tech_debt_keywords) : tech_debt_keywords[k] \in KeywordsAnyCase[c.s]

\* tech_debt_mask: the positions of the records the pattern matches
tech_debt_mask(data) ==
    {r \in 1..NRows(data) : title_contains(data.rows[r][TheCol(data, "title")])}

\* self.data[tech_debt_mask]: the records at the positions, in dataset order
Records(data, keep) ==
    AsSeq([k \in 1..Len(RowsAt(data, keep)) |-> data.rows[RowsAt(data, keep)[k]]])

\* an empty or absent dataset gives pd.DataFrame(); the .str accessor of a
\* title column without any text raises AttributeError
identify_tech_debt_incidents(data) ==
    IF NoData(data) THEN Returned(<<>>)
    ELSE IF ~HasStrAccessor(data, "title") THEN Raised
    ELSE Returned(Records(data, tech_debt_mask(data)))

\* (debt_incidents / total_incidents) * 100 if total_incidents > 0 else 0
debt_percentage(debt_incidents, total_incidents) ==
    IF total_incidents > 0 THEN Divide(debt_incidents * 100, total_incidents)
    ELSE [num |-> 0, den |-> 1]

\* groupby(column).size().reset_index() with the two labels assigned
DebtByTeam(frame, keys) ==
    AsSeq([k \in 1..Len(keys) |->
        [assigned_team |-> keys[k][1],
         debt_count |-> Cardinality(Members(frame, <<"assigned_team">>, keys[k]))]])

DebtTrend(frame, keys) ==
    AsSeq([k \in 1..Len(keys) |->
        [month_year |-> keys[k][1],
         debt_incidents |-> Cardinality(Members(frame, <<"month_year">>, keys[k]))]])

\* the dict returned; frame holds the tech-debt incidents
DebtIndicators(data, frame) ==
    [total_debt_percentage |-> debt_percentage(NRows(frame), NRows(data)),
     debt_by_team |-> IF NRows(frame) = 0 THEN <<>>
                      ELSE DebtByTeam(frame, SortedKeys(GroupKeys(frame, <<"assigned_team">>))),
     debt_trend |-> IF NRows(frame) = 0 THEN <<>>
                    ELSE DebtTrend(frame, SortedKeys(GroupKeys(frame, <<"month_year">>))),
     debt_incidents |-> frame.rows]

DebtIndicatorsOf(data, found) ==
    IF found.raised THEN Raised
    ELSE IF found.rows # <<>> /\ ~SingleColumns(data, {"assigned_team", "month_year"})
    THEN Raised
    ELSE Returned(<<DebtIndicators(data, [cols |-> data.cols, rows |-> found.rows])>>)

\* the dict is the one entry of the outcome; len(self.data) raises TypeError
\* when the dataset is None
calculate_tech_debt_indicators(data) ==
    IF data = None THEN Raised
    ELSE DebtIndicatorsOf(data, identify_tech_debt_incidents(data))

----------------------------------------------------------------------------
(* TrendAnalyzer *)

MonthlyRows(data, keys) ==
    AsSeq([k \in 1..Len(keys) |->
        [month_year |-> keys[k][1],
         incident_count |-> Cardinality(Members(data, <<"month_year">>, keys[k]))]])

get_monthly_trends(data) ==
    IF NoData(data) THEN ReturnedNone
    ELSE IF ~SingleColumns(data, {"month_year"}) THEN Raised
    ELSE Returned(MonthlyRows(data, SortedKeys(GroupKeys(data, <<"month_year">>))))

\* the non-null values of a column in the order they are first met
RECURSIVE FirstSeen(_, _, _)
FirstSeen(cells, k, acc) ==
    IF k > Len(cells) THEN acc
    ELSE FirstSeen(cells, k + 1,
            IF IsNull(cells[k]) \/ \E i \in 1..Len(acc) : acc[i] = cells[k]
            THEN acc ELSE Append(acc, cells[k]))

CategoryRows(cells, seen) ==
    AsSeq([k \in 1..Len(seen) |->
        [category |-> seen[k].s, count |-> Occurrences(cells, seen[k])]])

\* value_counts(): the counts of the non-null values, greatest first, equal
\* counts in an order the sort does not fix
get_category_distribution(data, tie) ==
    IF NoData(data) THEN ReturnedNone
    ELSE IF ~SingleColumns(data, {"category"}) THEN Raised
    ELSE Returned(SortDescending(
                    CategoryRows(Column(data, TheCol(data, "category")),
                                 FirstSeen(Column(data, TheCol(data, "category")), 1, <<>>)),
                    "count", tie))

\* the numbers of a column, smallest first
Numbers(cells) == SelectSeq(cells, LAMBDA c : c.t = "num")

Smallest(cells) ==
    CHOOSE k \in 1..Len(cells) :
        /\ \A j \in 1..Len(cells) : cells[k].n <= cells[j].n
        /\ \A j \in 1..(k - 1) : cells[j].n # cells[k].n

RECURSIVE Ascending(_)
AscendingFrom(cells, pick) == <<cells[pick].n>> \o Ascending(Without(cells, pick))

Ascending(cells) ==
    IF cells = <<>> THEN <<>> ELSE AscendingFrom(cells, Smallest(cells))

\* Series.median(): the middle of the sorted non-null values
MedianOf(sorted) ==
    IF sorted = <<>> THEN Divide(0, 0)
    ELSE IF Len(sorted) % 2 = 1 THEN Divide(sorted[(Len(sorted) + 1) \div 2], 1)
    ELSE Divide(sorted[Len(sorted) \div 2] + sorted[Len(sorted) \div 2 + 1], 2)

Median(cells) == MedianOf(Ascending(Numbers(cells)))

RECURSIVE SumOfSquares(_, _)
SumOfSquares(cells, k) ==
    IF k > Len(cells) THEN 0
    ELSE (IF cells[k].t = "num" THEN cells[k].n * cells[k].n ELSE 0)
         + SumOfSquares(cells, k + 1)

\* Series.std() (ddof=1) is the square root of this quotient, NaN for fewer
\* than two values; the quotient is kept, its root need not be one
Variance(cells) ==
    IF CountOf(cells) < 2 THEN Divide(0, 0)
    ELSE Divide(CountOf(cells) * SumOfSquares(cells, 1) - SumOf(cells, 1) * SumOf(cells, 1),
                CountOf(cells) * (CountOf(cells) - 1))

PriorityRow(data, key, members) ==
    [priority |-> key[1],
     count |-> CountOf(GroupCells(data, members, "incident_id")),
     mean |-> Mean(GroupCells(data, members, "resolution_time")),
     median |-> Median(GroupCells(data, members, "resolution_time")),
     std |-> Variance(GroupCells(data, members, "resolution_time"))]

PriorityRows(data, keys) ==
    AsSeq([k \in 1..Len(keys) |->
        PriorityRow(data, keys[k], Members(data, <<"priority">>, keys[k]))])

get_priority_analysis(data) ==
    IF NoData(data) THEN ReturnedNone
    ELSE IF ~SingleColumns(data, {"priority", "incident_id", "resolution_time"}) THEN Raised
    ELSE Returned(PriorityRows(data, SortedKeys(GroupKeys(data, <<"priority">>))))

\* variant: identify_tech_debt_incidents filters self.data in place
self_data_FilteredInPlace(data, op, out) ==
    IF op = "identify_tech_debt_incidents" /\ data # None /\ ~out.raised
    THEN [data EXCEPT !.rows = out.rows]
    ELSE data

\* self.data after a method of an analyzer ran: the methods index and group
\* self.data and assign only to the frames they derive from it
self_data(data, op, out) == data

----------------------------------------------------------------------------
(* Datasets for the analyzers: tables of incident records that are         *)
(* normalized by preprocess_data and then handed to the analyzers          *)

MaxRecords == 3

IncidentCols ==
    << "incident_id", "category", "title", "priority", "assigned_team",
       "resolution_time", "created_date" >>

IncidentRows ==
    { << Num(1), Text("Database"), Text("Database outage"), Text("Critical"),
         Text("Zeta"), Num(5), Text("2024-01-02") >>,
      << Num(2), Text("Database"), Text("Database outage"), Text("Critical/High"),
         Text("Alpha"), Num(4), Text("2024-01-02") >>,
      << Num(3), Text("Database"), Text("Login failure"), Text("high"),
         Text("Alpha"), Num(24), Text("2024-02-01") >>,
      << Null, Text("Database"), Text("Login failure"), Null,
         Text("Alpha"), Num(30), Text("2024-02-01") >>,
      << Num(5), Text("Network"), Text("Database outage"), Text("Medium"),
         Text("Zeta"), Num(30), Text("2024-01-02") >>,
      << Num(6), Text("Network"), Text("Login failure"), Text("Critical"),
         Null, Null, Null >>,
      << Num(7), Null, Text("Database outage"), Text("low"),
         Text("Zeta"), Num(72), Text("2024-01-02") >> }

IncidentTables ==
    {[cols |-> IncidentCols, rows |-> rows] :
        rows \in UNION {[1..n -> IncidentRows] : n \in 0..MaxRecords}}

\* the top_n arguments of get_top_recurring_issues
TopNs == {1, 2, 10}

InitAnalysis ==
    /\ raw_data \in IncidentTables
    /\ processed_data = None
    /\ data_loaded = FALSE
    /\ uploaded = <<>>
    /\ call = [op |-> "init", load |-> "none", pre |-> "none"]
    /\ st_errors = 0
    /\ mapped = None
    /\ reloaded = FALSE
    /\ report = None
    /\ tie_break \in {"stable", "reversed"}
    /\ earlier = None
    /\ health = None

\* an analyzer call is the latest call; the dataset is the object the
\* analyzer was constructed with, nothing else of the session changes
AnalyzerCall(name, arg, out) ==
    /\ report' = [op |-> name, arg |-> arg, out |-> out]
    /\ call' = [call EXCEPT !.op = name]
    /\ processed_data' = self_data(processed_data, name, out)
    /\ earlier' = IF earlier = None THEN None
                  ELSE [earlier EXCEPT !.between = @ \/ name # earlier.report.op]
    /\ UNCHANGED <<raw_data, data_loaded, uploaded, st_errors, mapped, reloaded, tie_break,
                   health>>

GetTopRecurringIssues ==
    \E top_n \in TopNs :
        \E out \in {get_top_recurring_issues(processed_data, top_n, tie_break)} :
            AnalyzerCall("get_top_recurring_issues", top_n, out)

AnalyzeSlaPerformance ==
    \E out \in {analyze_sla_performance(processed_data)} :
        AnalyzerCall("analyze_sla_performance", 0, out)

AnalyzeTeamTrends ==
    \E out \in {analyze_team_trends(processed_data)} :
        AnalyzerCall("analyze_team_trends", 0, out)

GetTeamPerformanceSummary ==
    \E out \in {get_team_performance_summary(processed_data)} :
        AnalyzerCall("get_team_performance_summary", 0, out)

IdentifyTechDebtIncidents ==
    \E out \in {identify_tech_debt_incidents(processed_data)} :
        AnalyzerCall("identify_tech_debt_incidents", 0, out)

CalculateTechDebtIndicators ==
    \E out \in {calculate_tech_debt_indicators(processed_data)} :
        AnalyzerCall("calculate_tech_debt_indicators", 0, out)

GetMonthlyTrends ==
    \E out \in {get_monthly_trends(processed_data)} :
        AnalyzerCall("get_monthly_trends", 0, out)

GetCategoryDistribution ==
    \E out \in {get_category_distribution(processed_data, tie_break)} :
        AnalyzerCall("get_category_distribution", 0, out)

GetPriorityAnalysis ==
    \E out \in {get_priority_analysis(processed_data)} :
        AnalyzerCall("get_priority_analysis", 0, out)

NextAnalysis ==
    \/ NormalizeTable
    \/ GetTopRecurringIssues
    \/ AnalyzeSlaPerformance
    \/ AnalyzeTeamTrends

SpecAnalysis == InitAnalysis /\ [][NextAnalysis]_vars

----------------------------------------------------------------------------
(* The nine operations of the five analyzers, on datasets that also hold   *)
(* an incident whose title names technical debt                            *)

MaxDebtRecords == 2

DebtRows ==
    IncidentRows \cup
    { << Num(8), Text("Network"), Text("Remove LEGACY Workaround"), Text("Medium"),
         Text("Alpha"), Num(8), Text("2024-02-01") >> }

DebtTables ==
    {[cols |-> IncidentCols, rows |-> rows] :
        rows \in UNION {[1..n -> DebtRows] : n \in 0..MaxDebtRecords}}

InitAnalyzers ==
    /\ raw_data \in DebtTables
    /\ processed_data = None
    /\ data_loaded = FALSE
    /\ uploaded = <<>>
    /\ call = [op |-> "init", load |-> "none", pre |-> "none"]
    /\ st_errors = 0
    /\ mapped = None
    /\ reloaded = FALSE
    /\ report = None
    /\ tie_break \in {"stable", "reversed"}
    /\ earlier = None
    /\ health = None

NextAnalyzers ==
    \/ NormalizeTable
    \/ GetTopRecurringIssues
    \/ AnalyzeSlaPerformance
    \/ AnalyzeTeamTrends
    \/ GetTeamPerformanceSummary
    \/ IdentifyTechDebtIncidents
    \/ CalculateTechDebtIndicators
    \/ GetMonthlyTrends
    \/ GetCategoryDistribution
    \/ GetPriorityAnalysis

SpecAnalyzers == InitAnalyzers /\ [][NextAnalyzers]_vars

----------------------------------------------------------------------------
(* The dashboard run again and again on one dataset: Streamlit reruns main *)
(* on every interaction, and every run constructs the analyzers anew       *)

\* records with every cell filled, of different groups
RerunRows ==
    { << Num(1), Text("Database"), Text("Database outage"), Text("Critical"),
         Text("Zeta"), Num(5), Text("2024-01-02") >>,
      << Num(3), Text("Database"), Text("Login failure"), Text("high"),
         Text("Alpha"), Num(24), Text("2024-02-01") >>,
      << Num(8), Text("Network"), Text("Remove LEGACY Workaround"), Text("Medium"),
         Text("Alpha"), Num(8), Text("2024-02-01") >> }

RerunTables == {t \in DebtTables : \A r \in 1..NRows(t) : t.rows[r] \in RerunRows}

InitRerun ==
    /\ raw_data \in RerunTables
    /\ processed_data = None
    /\ data_loaded = FALSE
    /\ uploaded = <<>>
    /\ call = [op |-> "init", load |-> "none", pre |-> "none"]
    /\ st_errors = 0
    /\ mapped = None
    /\ reloaded = FALSE
    /\ report = None
    /\ tie_break \in {"stable", "reversed"}
    /\ earlier = None
    /\ health = None

\* app.py: the tabs are drawn only when the processor holds a dataset
ShowsData == ~NoData(processed_data)

\* the result of the latest analyzer call is kept, with the dataset it was
\* computed from; between records that another operation ran since
KeepResult ==
    /\ report # None
    /\ earlier = None
    /\ earlier' = [report |-> report, data |-> processed_data, between |-> FALSE]
    /\ UNCHANGED <<raw_data, processed_data, data_loaded, uploaded, call, st_errors, mapped,
                   reloaded, report, tie_break, health>>

NextRerun ==
    \/ NormalizeTable
    \/ KeepResult
    \/ (ShowsData /\ GetTopRecurringIssues)
    \/ (ShowsData /\ AnalyzeSlaPerformance)
    \/ (ShowsData /\ AnalyzeTeamTrends)
    \/ (ShowsData /\ GetTeamPerformanceSummary)
    \/ (ShowsData /\ IdentifyTechDebtIncidents)
    \/ (ShowsData /\ CalculateTechDebtIndicators)
    \/ (ShowsData /\ GetMonthlyTrends)
    \/ (ShowsData /\ GetCategoryDistribution)
    \/ (ShowsData /\ GetPriorityAnalysis)

SpecRerun == InitRerun /\ [][NextRerun]_vars

----------------------------------------------------------------------------
(* HealthChecker.wait_for_app_start of src/tests/test_health.py: the loop  *)
(* over range(self.retry_count), one step per request, per end of an       *)
(* attempt and for the return after the loop                               *)

MaxRetries == 5

\* self.retry_delay
retry_delay == 10

\* what requests.get gives: a response with a status code, or a
\* RequestException (no connection, or no answer within self.timeout)
Responses ==
    {[event |-> "get", raised |-> FALSE, status_code |-> 200],
     [event |-> "get", raised |-> FALSE, status_code |-> 503],
     [event |-> "get", raised |-> TRUE, status_code |-> 0]}

Slept == [event |-> "sleep", raised |-> FALSE, status_code |-> 0]

InitHealth ==
    /\ raw_data = None
    /\ processed_data = None
    /\ data_loaded = FALSE
    /\ uploaded = <<>>
    /\ call = [op |-> "init", load |-> "none", pre |-> "none"]
    /\ st_errors = 0
    /\ mapped = None
    /\ reloaded = FALSE
    /\ report = None
    /\ tie_break = "stable"
    /\ earlier = None
    /\ health \in {[pc |-> "for", retry_count |-> n, attempt |-> 0, log |-> <<>>,
                     waited |-> 0, ret |-> "none"] : n \in 0..MaxRetries}

HealthStep(next) ==
    /\ health' = next
    /\ UNCHANGED <<raw_data, processed_data, data_loaded, uploaded, call, st_errors, mapped,
                   reloaded, report, tie_break, earlier>>

\* lines 24-33: the next attempt of the loop; status 200 returns True
Request ==
    /\ health.pc = "for"
    /\ health.attempt < health.retry_count
    /\ \E response \in Responses :
          HealthStep(IF ~response.raised /\ response.status_code = 200
                     THEN [health EXCEPT !.log = Append(@, response),
                                         !.pc = "done", !.ret = "True"]
                     ELSE [health EXCEPT !.log = Append(@, response), !.pc = "if"])

\* variant: the delay follows every failed attempt
BeforeLastAttempt_Always(attempt, retry_count) == TRUE

\* line 35: attempt < self.retry_count - 1
BeforeLastAttempt(attempt, retry_count) == attempt < retry_count - 1

\* lines 35-37: the end of a failed attempt, with time.sleep(self.retry_delay)
\* when another attempt follows
EndAttempt ==
    /\ health.pc = "if"
    /\ HealthStep(IF BeforeLastAttempt(health.attempt, health.retry_count)
                  THEN [health EXCEPT !.log = Append(@, Slept),
                                      !.waited = @ + retry_delay,
                                      !.attempt = @ + 1, !.pc = "for"]
                  ELSE [health EXCEPT !.attempt = @ + 1, !.pc = "for"])

\* line 39: the loop is exhausted
ReturnFalse ==
    /\ health.pc = "for"
    /\ health.attempt >= health.retry_count
    /\ HealthStep([health EXCEPT !.pc = "done", !.ret = "False"])

NextHealth == Request \/ EndAttempt \/ ReturnFalse

\* requests.get returns or raises within self.timeout and time.sleep
\* returns, so the call always takes its next step
SpecHealth == InitHealth /\ [][NextHealth]_vars /\ WF_vars(NextHealth)

----------------------------------------------------------------------------
(* Properties of a session (specification Spec) *)

\* the files of the latest load that could be read, in upload order
ReadFiles == SelectSeq(uploaded, LAMBDA f : f.readable)

\* the file and the row each record of the combined data comes from
RECURSIVE Origins(_)
Origins(files) ==
    IF files = <<>> THEN <<>>
    ELSE AsSeq([r \in 1..Len(Head(files).rows) |-> [file |-> Head(files), row |-> r]])
         \o Origins(Tail(files))

\* what normalization makes of a source cell of canonical field f
ExpectedCell(f, c) ==
    IF f \in {"created_date", "resolved_date"}
    THEN (IF c.t = "text" /\ c.s \in DOMAIN DateText THEN Ts(DateText[c.s])
          ELSE IF c.t = "ts" THEN c ELSE Null)
    ELSE c

\* no file names a canonical field twice, and two files name one by different labels
NameFieldsOnce(files) ==
    \A k \in 1..Len(files) : \A i, j \in 1..Len(files[k].cols) :
        (i # j /\ FieldOf(files[k].cols[i]) # "none")
            => FieldOf(files[k].cols[i]) # FieldOf(files[k].cols[j])
DifferentAliases(files) ==
    \E k, l \in 1..Len(files) : \E i \in 1..Len(files[k].cols), j \in 1..Len(files[l].cols) :
        /\ FieldOf(files[k].cols[i]) # "none"
        /\ FieldOf(files[k].cols[i]) = FieldOf(files[l].cols[j])
        /\ files[k].cols[i] # files[l].cols[j]

\* C1: when the files of a load name one canonical field by different
\* aliases, then after the load and a successful preprocess_data every record
\* carries its own source value under that canonical field.
C1_EveryAliasReachesItsField ==
    (call.pre = "True" /\ ReadFiles # <<>>
        /\ NameFieldsOnce(ReadFiles) /\ DifferentAliases(ReadFiles))
    => LET org == Origins(ReadFiles)
       IN  \A p \in 1..Len(org) : \A i \in 1..Len(org[p].file.cols) :
             LET f == FieldOf(org[p].file.cols[i])
             IN  f # "none" =>
                   \E j \in ColIdx(processed_data, f) :
                      processed_data.rows[p][j]
                        = ExpectedCell(f, org[p].file.rows[org[p].row][i])

\* C2: after every successful preprocess_data every record has a non-null
\* title, category, priority, status and assigned_team.
C2_TextFieldsNeverNull ==
    call.pre = "True"
    => \A f \in TextColumns :
         /\ HasCol(processed_data, f)
         /\ \A j \in ColIdx(processed_data, f), r \in 1..NRows(processed_data) :
               ~IsNull(processed_data.rows[r][j])

\* C3: load_excel_files skips the files that cannot be read and loads the
\* others; it returns True iff some file was read, and raw_data is then made
\* of exactly the rows of the files read, each tagged with its file name.
C3_LoadSkipsUnreadableFiles ==
    call.load # "none"
    => /\ (call.load = "True") <=> (ReadFiles # <<>>)
       /\ (call.load = "False") <=> (ReadFiles = <<>>)
       /\ call.load = "True" =>
            LET org == Origins(ReadFiles)
            IN  /\ NRows(raw_data) = Len(org)
                /\ \A j \in 1..NCols(raw_data) :
                      \/ raw_data.cols[j] = "source_file"
                      \/ \E k \in 1..Len(ReadFiles) : \E i \in 1..Len(ReadFiles[k].cols) :
                            ReadFiles[k].cols[i] = raw_data.cols[j]
                /\ \A p \in 1..Len(org) :
                      LET file == org[p].file
                      IN  /\ Cardinality(ColIdx(raw_data, "source_file")) = 1
                          /\ raw_data.rows[p][TheCol(raw_data, "source_file")] = Text(file.name)
                          /\ \A i \in 1..Len(file.cols) :
                                /\ Cardinality(ColIdx(raw_data, file.cols[i])) = 1
                                /\ raw_data.rows[p][TheCol(raw_data, file.cols[i])]
                                     = file.rows[org[p].row][i]
                          /\ \A j \in 1..NCols(raw_data) :
                                (raw_data.cols[j] # "source_file"
                                   /\ \A i \in 1..Len(file.cols) : file.cols[i] # raw_data.cols[j])
                                => raw_data.rows[p][j] = Null

\* a load that skipped an unreadable file and read another one
C3_Witness ==
    /\ call.op = "load_excel_files" /\ call.load = "True"
    /\ Len(uploaded) = 2 /\ Len(ReadFiles) = 1 /\ st_errors = 1

\* C4: when preprocess_data returns False the processor holds no dataset.
C4_FailedPreprocessHoldsNoDataset ==
    call.pre = "False" => processed_data = None

\* C5: a load that returns True followed by a preprocess_data that returns
\* True leaves a dataset made only of the rows of the files of that load,
\* whatever was loaded before.
C5_ReloadReplacesDataset ==
    (call.pre = "True" /\ ReadFiles # <<>>)
    => LET org == Origins(ReadFiles)
       IN  /\ NRows(processed_data) = Len(org)
           /\ \A p \in 1..Len(org) :
                 LET file == org[p].file
                 IN  /\ \E j \in ColIdx(processed_data, "source_file") :
                           processed_data.rows[p][j] = Text(file.name)
                     /\ \A i \in 1..Len(file.cols) :
                           LET j == TheCol(raw_data, file.cols[i])
                           IN  processed_data.rows[p][j]
                                 = ExpectedCell(processed_data.cols[j], file.rows[org[p].row][i])

\* a dataset produced after raw data of an earlier load was replaced
C5_Witness ==
    /\ reloaded /\ call.pre = "True" /\ ReadFiles # <<>>
    /\ processed_data # None /\ NRows(processed_data) > 0

\* C6: load_excel_files and preprocess_data return False on failure and let
\* no exception reach the caller; preprocess_data without raw data returns
\* False.
C6_FailuresAreReturnedAsFalse ==
    /\ call.load \in {"none", "True", "False"}
    /\ call.pre \in {"none", "True", "False"}
    /\ (call.op = "preprocess_data" /\ raw_data = None) => call.pre = "False"
    /\ (call.op = "preprocess_data" /\ st_errors > 0) => call.pre = "False"

\* a preprocess_data call whose pipeline raised
C6_Witness ==
    /\ call.op = "preprocess_data" /\ call.pre = "False"
    /\ raw_data # None /\ st_errors = 1

\* df is what the pipeline makes of raw at some reading of the clock
NormalizationOf(raw, df) ==
    \E nowC \in Clock, nowR \in Clock :
        /\ nowC <= nowR
        /\ ~RunPipeline(raw, nowC, nowR).raised
        /\ RunPipeline(raw, nowC, nowR).df = df

\* C28: in every state of a session processed_data is set only if raw_data
\* is set and data_loaded is true only if processed_data is set; and no step
\* sets data_loaded back to false.
C28_SessionFlagsAreOrdered ==
    /\ [](processed_data # None => raw_data # None)
    /\ [](data_loaded => processed_data # None)
    /\ [][data_loaded => data_loaded']_vars

\* data are shown and the latest run of the button failed in preprocess_data
C28_Witness ==
    /\ data_loaded /\ processed_data # None
    /\ call.op = "process_files" /\ call.load = "True" /\ call.pre = "False"

\* C29: a preprocess_data step leaves raw_data as it was (within the
\* button: as the load left it), and a load_excel_files or preprocess_data
\* call that returns False leaves raw_data and processed_data as they were
\* before the call.
C29_FailedCallsChangeNothing ==
    [][/\ call'.op = "preprocess_data" => raw_data' = raw_data
       /\ (call'.op = "process_files" /\ call'.load = "True")
             => raw_data' = load_excel_files(uploaded', raw_data).raw
       /\ (call'.op \in {"load_excel_files", "process_files"} /\ call'.load = "False")
             => (raw_data' = raw_data /\ processed_data' = processed_data)
       /\ (call'.op = "preprocess_data" /\ call'.pre = "False")
             => (raw_data' = raw_data /\ processed_data' = processed_data)
       /\ (call'.op = "process_files" /\ call'.pre = "False")
             => processed_data' = processed_data]_vars

\* preprocess_data returned False on raw data it could not normalize, while
\* the processor held a dataset of an earlier load
C29_Witness ==
    /\ call.op = "preprocess_data" /\ call.pre = "False"
    /\ raw_data # None /\ processed_data # None
    /\ ~NormalizationOf(raw_data, processed_data)

----------------------------------------------------------------------------
(* Properties of a session driven by "Process Files" only (SpecApp) *)

\* C27: whenever the dashboard shows data (data_loaded), the dataset shown
\* is the normalization of the raw data the processor holds, which are the
\* files of the latest load that returned True.
C27_ShownDatasetIsOfCurrentRawData ==
    data_loaded => /\ raw_data # None
                   /\ processed_data # None
                   /\ NormalizationOf(raw_data, processed_data)

----------------------------------------------------------------------------
(* Properties of the mapping and normalization of one table (SpecTable) *)

\* the canonical fields no column of the table is an alias of
AbsentFields(df) ==
    {f \in CanonicalFields : \A i \in 1..NCols(df) : FieldOf(df.cols[i]) # f}

\* C7: alias coverage. A table whose only column is an alias of field f, in
\* any spelling, is normalized to a dataset whose field f holds the values of
\* that column.
C7_AliasCoverage ==
    (call.pre # "none" /\ NCols(raw_data) = 1 /\ raw_data.cols[1] \in KnownLabels)
    => LET f == FieldOf(raw_data.cols[1])
       IN  /\ call.pre = "True"
           /\ f # "none"
           /\ Cardinality(ColIdx(processed_data, f)) = 1
           /\ NRows(processed_data) = NRows(raw_data)
           /\ \A r \in 1..NRows(raw_data) :
                 processed_data.rows[r][TheCol(processed_data, f)]
                   = ExpectedCell(f, raw_data.rows[r][1])

\* a normalized one-column table whose label is an upper-case alias
C7_Witness ==
    /\ call.pre = "True" /\ NCols(raw_data) = 1 /\ NRows(raw_data) = 2
    /\ raw_data.cols[1] = "SUMMARY"
    /\ processed_data.rows[2][TheCol(processed_data, "title")] = Text("beta")

\* C8: schema mapping idempotence. standardize_columns on a table whose
\* columns are all canonical names returns the same labels in the same
\* order with the same values.
C8_CanonicalTableUnchanged ==
    (mapped # None /\ \A i \in 1..NCols(raw_data) : raw_data.cols[i] \in CanonicalFields)
    => mapped = raw_data

\* standardize_columns was applied to a table of two canonical columns
C8_Witness ==
    /\ mapped # None /\ NCols(raw_data) = 2 /\ NRows(raw_data) = 2
    /\ \A i \in 1..NCols(raw_data) : raw_data.cols[i] \in CanonicalFields

\* C9: when two source columns are aliases of the same canonical field the
\* mapped table carries that field as a single column of the canonical name,
\* holding the values of one of the two source columns.
C9_DuplicateTargetIsOneColumn ==
    mapped # None
    => \A i, j \in 1..NCols(raw_data) :
         (i < j /\ FieldOf(raw_data.cols[i]) # "none"
               /\ FieldOf(raw_data.cols[i]) = FieldOf(raw_data.cols[j]))
         => LET f == FieldOf(raw_data.cols[i])
            IN  /\ Cardinality(ColIdx(mapped, f)) = 1
                /\ Column(mapped, TheCol(mapped, f))
                     \in {Column(raw_data, i), Column(raw_data, j)}

\* C10 as the specification states it: every one of the nine canonical fields that is absent
\* from the input has no null value in the normalized dataset.
C10_NoNullInAnyAbsentField ==
    call.pre = "True"
    => \A f \in AbsentFields(raw_data) :
         /\ HasCol(processed_data, f)
         /\ \A j \in ColIdx(processed_data, f), r \in 1..NRows(processed_data) :
               ~IsNull(processed_data.rows[r][j])

\* C10, amended: each of the eight required fields that is absent from the
\* input is filled on every row (incident_id with 1..N in row order, a text
\* field with "Unknown", a date field with a timestamp), and an absent
\* resolution_time is null exactly on the rows with a null date.
C10_DefaultFillOfRequiredFields ==
    call.pre = "True"
    => \A f \in AbsentFields(raw_data) :
         /\ Cardinality(ColIdx(processed_data, f)) = 1
         /\ NRows(processed_data) = NRows(raw_data)
         /\ \A r \in 1..NRows(processed_data) :
               LET c == processed_data.rows[r][TheCol(processed_data, f)]
                   created == processed_data.rows[r][TheCol(processed_data, "created_date")]
                   resolved == processed_data.rows[r][TheCol(processed_data, "resolved_date")]
               IN  /\ f = "incident_id" => c = Num(r)
                   /\ f \in TextColumns => c = Text("Unknown")
                   /\ f \in {"created_date", "resolved_date"} => (c.t = "ts" /\ c.n \in Clock)
                   /\ f = "resolution_time" =>
                        (IsNull(c) <=> (IsNull(created) \/ IsNull(resolved)))

\* a normalized two-row table none of whose columns is a canonical field
C10_Witness ==
    /\ call.pre = "True" /\ NRows(raw_data) = 2
    /\ AbsentFields(raw_data) = CanonicalFields
    /\ processed_data.rows[2][TheCol(processed_data, "incident_id")] = Num(2)

----------------------------------------------------------------------------
(* Properties of the date conversion and of the derived fields (SpecTable) *)

\* no two columns of the table are aliases of the same canonical field
NamesFieldsOnce(df) ==
    \A i, j \in 1..NCols(df) :
        (i # j /\ FieldOf(df.cols[i]) # "none") => FieldOf(df.cols[i]) # FieldOf(df.cols[j])

DateFields == {"created_date", "resolved_date"}

\* C11: a created_date or resolved_date value that cannot be parsed becomes
\* null and does not make preprocess_data fail: the call returns True, every
\* record is kept, and the values that can be parsed are kept as timestamps.
C11_UnparseableDateBecomesNull ==
    (call.pre # "none" /\ NamesFieldsOnce(raw_data))
    => /\ call.pre = "True"
       /\ NRows(processed_data) = NRows(raw_data)
       /\ \A i \in 1..NCols(raw_data) :
             LET f == FieldOf(raw_data.cols[i])
             IN  f \in DateFields =>
                   /\ Cardinality(ColIdx(processed_data, f)) = 1
                   /\ \A r \in 1..NRows(raw_data) :
                         LET src == raw_data.rows[r][i]
                             out == processed_data.rows[r][TheCol(processed_data, f)]
                         IN  /\ (src.t = "text" /\ src.s \notin DOMAIN DateText) => IsNull(out)
                             /\ (src.t = "text" /\ src.s \in DOMAIN DateText)
                                   => out = Ts(DateText[src.s])

\* a normalized table whose first created value is no date and whose second is
C11_Witness ==
    /\ call.pre = "True" /\ NRows(raw_data) = 2 /\ NamesFieldsOnce(raw_data)
    /\ \E i \in 1..NCols(raw_data) :
          /\ FieldOf(raw_data.cols[i]) = "created_date"
          /\ raw_data.rows[1][i] = Text("not a date")
    /\ IsNull(processed_data.rows[1][TheCol(processed_data, "created_date")])
    /\ processed_data.rows[2][TheCol(processed_data, "created_date")] = Ts(48)

\* the cell of record r under the only column named f
Field(df, r, f) == df.rows[r][TheCol(df, f)]

\* C12: derived-field consistency. Without a resolution_time column in the
\* input, resolution_time is resolved_date - created_date in hours (negative
\* when the dates are inverted) and null when one of the dates is null; a
\* supplied resolution_time column is kept as it is.
C12_ResolutionTimeDerivedOrKept ==
    call.pre = "True"
    => /\ Cardinality(ColIdx(processed_data, "resolution_time")) = 1
       /\ Cardinality(ColIdx(processed_data, "created_date")) = 1
       /\ Cardinality(ColIdx(processed_data, "resolved_date")) = 1
       /\ IF "resolution_time" \in AbsentFields(raw_data)
          THEN \A r \in 1..NRows(processed_data) :
                 LET created == Field(processed_data, r, "created_date")
                     resolved == Field(processed_data, r, "resolved_date")
                     hours == Field(processed_data, r, "resolution_time")
                 IN  IF IsNull(created) \/ IsNull(resolved)
                     THEN IsNull(hours)
                     ELSE hours = Num(resolved.n - created.n)
          ELSE \E i \in 1..NCols(raw_data) :
                 /\ FieldOf(raw_data.cols[i]) = "resolution_time"
                 /\ Column(processed_data, TheCol(processed_data, "resolution_time"))
                      = Column(raw_data, i)

\* a normalized table without resolution_time: its first record has a null
\* date, its second is resolved before it is created
C12_Witness ==
    /\ call.pre = "True" /\ NRows(raw_data) = 2
    /\ "resolution_time" \in AbsentFields(raw_data)
    /\ IsNull(Field(processed_data, 1, "resolved_date"))
    /\ IsNull(Field(processed_data, 1, "resolution_time"))
    /\ Field(processed_data, 2, "resolution_time").t = "num"
    /\ Field(processed_data, 2, "resolution_time").n < 0

\* C14: month_year and week_year are null iff created_date is null, and two
\* records with the same non-null created_date have the same month_year and
\* the same week_year.
C14_BucketsFollowCreatedDate ==
    call.pre = "True"
    => /\ Cardinality(ColIdx(processed_data, "month_year")) = 1
       /\ Cardinality(ColIdx(processed_data, "week_year")) = 1
       /\ \A r \in 1..NRows(processed_data) :
             /\ IsNull(Field(processed_data, r, "month_year"))
                  <=> IsNull(Field(processed_data, r, "created_date"))
             /\ IsNull(Field(processed_data, r, "week_year"))
                  <=> IsNull(Field(processed_data, r, "created_date"))
       /\ \A r, q \in 1..NRows(processed_data) :
             (~IsNull(Field(processed_data, r, "created_date"))
                /\ Field(processed_data, r, "created_date")
                     = Field(processed_data, q, "created_date"))
             => /\ Field(processed_data, r, "month_year")
                     = Field(processed_data, q, "month_year")
                /\ Field(processed_data, r, "week_year")
                     = Field(processed_data, q, "week_year")

\* a normalized table whose first record has no created_date and whose second
\* was created on 2024-01-03
C14_Witness ==
    /\ call.pre = "True" /\ NRows(raw_data) = 2
    /\ IsNull(Field(processed_data, 1, "created_date"))
    /\ IsNull(Field(processed_data, 1, "month_year"))
    /\ Field(processed_data, 2, "created_date") = Ts(48)
    /\ Field(processed_data, 2, "month_year") = Text("2024-01")
    /\ Field(processed_data, 2, "week_year") = Text("2024-W00")

----------------------------------------------------------------------------
(* Row order and row count of the dataset of a session (specification Spec) *)

\* the number of rows of the files of a list
RECURSIVE RowsOf(_)
RowsOf(files) == IF files = <<>> THEN 0 ELSE Len(Head(files).rows) + RowsOf(Tail(files))

\* C15: the dataset is the concatenation of the files read, in upload order
\* and with the row order of each file; preprocessing adds and drops no row,
\* and the source_file of a record is the name of the file it came from.
C15_DatasetIsConcatenationInUploadOrder ==
    (call.pre = "True" /\ ReadFiles # <<>>)
    => LET org == Origins(ReadFiles)
       IN  /\ NRows(processed_data) = RowsOf(ReadFiles)
           /\ NRows(processed_data) = NRows(raw_data)
           /\ Cardinality(ColIdx(processed_data, "source_file")) = 1
           /\ \A p \in 1..NRows(processed_data) :
                 /\ Field(processed_data, p, "source_file") = Text(org[p].file.name)
                 \* the record at position p is row org[p].row of that file
                 /\ \A j \in 1..NCols(raw_data) :
                       /\ processed_data.rows[p][j]
                            = ExpectedCell(processed_data.cols[j], raw_data.rows[p][j])
                       /\ \A i \in 1..Len(org[p].file.cols) :
                             org[p].file.cols[i] = raw_data.cols[j]
                             => raw_data.rows[p][j] = org[p].file.rows[org[p].row][i]

\* the dataset of two different files of two rows each, b.xlsx uploaded first
C15_Witness ==
    /\ call.pre = "True" /\ Len(ReadFiles) = 2
    /\ ReadFiles[1].name = "b.xlsx" /\ ReadFiles[2].name = "a.xlsx"
    /\ NRows(processed_data) = 4
    /\ Field(processed_data, 2, "source_file") = Text("b.xlsx")
    /\ Field(processed_data, 3, "source_file") = Text("a.xlsx")

----------------------------------------------------------------------------
(* Properties of the analyzers and of the records they are given           *)
(* (specification SpecAnalysis)                                            *)

\* C13: a record is overdue iff its resolution_time is greater than 24; a
\* record with resolution_time 24 or with a null resolution_time is not
\* overdue, and records of equal resolution_time are overdue alike whatever
\* their priority.
C13_OverdueIffMoreThan24Hours ==
    call.pre = "True"
    => /\ Cardinality(ColIdx(processed_data, "is_overdue")) = 1
       /\ \A r \in 1..NRows(processed_data) :
             LET hours == Field(processed_data, r, "resolution_time")
                 overdue == Field(processed_data, r, "is_overdue")
             IN  /\ overdue \in {Bool(TRUE), Bool(FALSE)}
                 /\ (overdue = Bool(TRUE)) <=> (hours.t = "num" /\ hours.n > 24)
                 /\ (hours = Num(24) \/ IsNull(hours)) => overdue = Bool(FALSE)
       /\ \A r, q \in 1..NRows(processed_data) :
             Field(processed_data, r, "resolution_time")
                = Field(processed_data, q, "resolution_time")
             => Field(processed_data, r, "is_overdue") = Field(processed_data, q, "is_overdue")

\* a dataset with a record of exactly 24 hours, one without resolution_time
\* and one of 30 hours
C13_Witness ==
    /\ call.pre = "True" /\ NRows(processed_data) = 3
    /\ Field(processed_data, 1, "resolution_time") = Num(24)
    /\ Field(processed_data, 1, "is_overdue") = Bool(FALSE)
    /\ IsNull(Field(processed_data, 2, "resolution_time"))
    /\ Field(processed_data, 2, "is_overdue") = Bool(FALSE)
    /\ Field(processed_data, 3, "resolution_time") = Num(30)
    /\ Field(processed_data, 3, "is_overdue") = Bool(TRUE)

\* the rows the latest analyzer call returned, none when it returned None or
\* raised
ReportedRows == IF report = None THEN <<>> ELSE report.out.rows

SlaLabels == {"Critical", "High", "Medium", "Low"}

\* the priority texts of the datasets that contain a label, whatever the case
TextsWith(label) ==
    CASE label = "Critical" -> {"Critical", "CRITICAL", "Critical/High"}
      [] label = "High" -> {"Critical/High", "high"}
      [] label = "Medium" -> {"Medium"}
      [] label = "Low" -> {"low", "Lowest"}

\* the records whose priority contains the label
RecordsWith(data, label) ==
    {r \in 1..NRows(data) :
        /\ Field(data, r, "priority").t = "text"
        /\ Field(data, r, "priority").s \in TextsWith(label)}

\* C16: analyze_sla_performance returns a row for a label iff some record's
\* priority contains the label, whatever the case; the row counts every
\* record that contains the label, so a record with two labels is counted
\* in two rows.
C16_SlaRowPerMatchedLabel ==
    (call.op = "analyze_sla_performance" /\ call.pre = "True")
    => /\ \A label \in SlaLabels :
             /\ (\E k \in 1..Len(ReportedRows) : ReportedRows[k].Priority = label)
                  <=> RecordsWith(processed_data, label) # {}
             /\ Cardinality({k \in 1..Len(ReportedRows) : ReportedRows[k].Priority = label}) <= 1
       /\ \A k \in 1..Len(ReportedRows) :
             /\ ReportedRows[k].Priority \in SlaLabels
             /\ ReportedRows[k].Total_Incidents
                  = Cardinality(RecordsWith(processed_data, ReportedRows[k].Priority))

\* an SLA table of a 'Critical' record and a 'Critical/High' record: the
\* second is counted under Critical and under High, no row for Medium and Low
C16_Witness ==
    /\ call.op = "analyze_sla_performance" /\ call.pre = "True"
    /\ NRows(processed_data) = 2
    /\ Field(processed_data, 1, "priority") = Text("Critical")
    /\ Field(processed_data, 2, "priority") = Text("Critical/High")
    /\ Len(ReportedRows) = 2
    /\ ReportedRows[1].Priority = "Critical" /\ ReportedRows[1].Total_Incidents = 2
    /\ ReportedRows[2].Priority = "High" /\ ReportedRows[2].Total_Incidents = 1

\* the threshold of a label, in hours
HoursAllowed(label) ==
    CASE label = "Critical" -> 4 [] label = "High" -> 8
      [] label = "Medium" -> 24 [] label = "Low" -> 72

\* the records with the label that were resolved within h hours
ResolvedWithin(data, label, h) ==
    {r \in RecordsWith(data, label) :
        /\ Field(data, r, "resolution_time").t = "num"
        /\ Field(data, r, "resolution_time").n <= h}

\* C17: in every row of the SLA table SLA_Met is the number of matched
\* records with resolution_time <= the threshold of the row (4, 8, 24, 72),
\* 0 <= SLA_Met <= Total_Incidents, SLA_Met + SLA_Missed = Total_Incidents and
\* SLA_Percentage = SLA_Met / Total_Incidents * 100; one Critical record of 5
\* hours gives Total_Incidents 1, SLA_Met 0, SLA_Percentage 0.
C17_SlaCountsAndPercentage ==
    (call.op = "analyze_sla_performance" /\ call.pre = "True")
    => /\ \A k \in 1..Len(ReportedRows) :
             LET row == ReportedRows[k]
             IN  /\ row.SLA_Threshold = HoursAllowed(row.Priority)
                 /\ row.SLA_Met
                      = Cardinality(ResolvedWithin(processed_data, row.Priority,
                                                   HoursAllowed(row.Priority)))
                 /\ 0 <= row.SLA_Met /\ row.SLA_Met <= row.Total_Incidents
                 /\ SLA_Missed(row) >= 0
                 /\ row.SLA_Met + SLA_Missed(row) = row.Total_Incidents
                 /\ row.SLA_Percentage.den > 0
                 /\ row.SLA_Percentage.num * row.Total_Incidents
                      = row.SLA_Met * 100 * row.SLA_Percentage.den
       /\ (/\ NRows(processed_data) = 1
           /\ Field(processed_data, 1, "priority") = Text("Critical")
           /\ Field(processed_data, 1, "resolution_time") = Num(5))
          => /\ Len(ReportedRows) = 1
             /\ ReportedRows[1].Priority = "Critical"
             /\ ReportedRows[1].Total_Incidents = 1
             /\ ReportedRows[1].SLA_Met = 0
             /\ ReportedRows[1].SLA_Percentage = [num |-> 0, den |-> 1]

\* the SLA table of a Critical record of 5 hours, one of 4 hours and one
\* without resolution_time: one of three met
C17_Witness ==
    /\ call.op = "analyze_sla_performance" /\ call.pre = "True"
    /\ NRows(processed_data) = 3
    /\ Field(processed_data, 1, "resolution_time") = Num(5)
    /\ Field(processed_data, 2, "resolution_time") = Num(4)
    /\ IsNull(Field(processed_data, 3, "resolution_time"))
    /\ Len(ReportedRows) = 2
    /\ ReportedRows[1].Priority = "Critical"
    /\ ReportedRows[1].Total_Incidents = 3 /\ ReportedRows[1].SLA_Met = 1
    /\ SLA_Missed(ReportedRows[1]) = 2
    /\ ReportedRows[1].SLA_Percentage = [num |-> 100, den |-> 3]

\* the (category, title) pairs of the records, and the records of a pair
PairsOf(data) ==
    {<<Field(data, r, "category").s, Field(data, r, "title").s>> :
        r \in {q \in 1..NRows(data) :
                  ~IsNull(Field(data, q, "category")) /\ ~IsNull(Field(data, q, "title"))}}

RecordsOfPair(data, pair) ==
    {r \in 1..NRows(data) :
        Field(data, r, "category") = Text(pair[1]) /\ Field(data, r, "title") = Text(pair[2])}

Smaller(a, b) == IF a < b THEN a ELSE b

\* C18: get_top_recurring_issues(top_n) returns one row per distinct
\* (category, title) pair with frequency equal to the number of records of
\* the pair, in order of non-increasing frequency, cut to top_n rows, and no
\* omitted pair is more frequent than a returned one.
C18_TopRecurringCountsRecords ==
    (call.op = "get_top_recurring_issues" /\ call.pre = "True")
    => /\ Len(ReportedRows) = Smaller(report.arg, Cardinality(PairsOf(processed_data)))
       /\ \A k \in 1..Len(ReportedRows) :
             /\ <<ReportedRows[k].category, ReportedRows[k].title>> \in PairsOf(processed_data)
             /\ ReportedRows[k].frequency
                  = Cardinality(RecordsOfPair(processed_data,
                        <<ReportedRows[k].category, ReportedRows[k].title>>))
             /\ \A j \in 1..Len(ReportedRows) :
                   /\ (j # k) => <<ReportedRows[j].category, ReportedRows[j].title>>
                                   # <<ReportedRows[k].category, ReportedRows[k].title>>
                   /\ (k < j) => ReportedRows[k].frequency >= ReportedRows[j].frequency
             /\ \A pair \in PairsOf(processed_data) :
                   (\A j \in 1..Len(ReportedRows) :
                        <<ReportedRows[j].category, ReportedRows[j].title>> # pair)
                   => Cardinality(RecordsOfPair(processed_data, pair)) <= ReportedRows[k].frequency

\* the teams of the records of a pair, in record order
TeamsOfPair(data, pair) == GroupCells(data, RecordsOfPair(data, pair), "assigned_team")

\* the position at which a team occurs first
FirstAt(teams, team) == CHOOSE k \in 1..Len(teams) :
                            teams[k] = team /\ \A j \in 1..(k - 1) : teams[j] # team

\* C19: in each (category, title) group the reported assigned_team occurs a
\* maximal number of times in the group, and among the teams that tie for
\* the maximum it is the one that occurs first in the record order.
C19_TeamIsFirstEncounteredMode ==
    (call.op = "get_top_recurring_issues" /\ call.pre = "True")
    => \A k \in 1..Len(ReportedRows) :
         LET teams == TeamsOfPair(processed_data,
                                  <<ReportedRows[k].category, ReportedRows[k].title>>)
             team == Text(ReportedRows[k].assigned_team)
         IN  /\ \E i \in 1..Len(teams) : teams[i] = team
             /\ \A i \in 1..Len(teams) :
                   ~IsNull(teams[i]) =>
                      /\ Occurrences(teams, teams[i]) <= Occurrences(teams, team)
                      /\ Occurrences(teams, teams[i]) = Occurrences(teams, team)
                           => FirstAt(teams, team) <= FirstAt(teams, teams[i])

\* the records of an (assigned_team, month_year) group
RecordsOfTeamMonth(data, team, month) ==
    {r \in 1..NRows(data) :
        Field(data, r, "assigned_team") = Text(team) /\ Field(data, r, "month_year") = Text(month)}

\* C20: in every row of analyze_team_trends total_incidents is at least 1
\* and is the number of records of the (assigned_team, month_year) group,
\* overdue_incidents is the number of overdue records of the group and at
\* most total_incidents, and overdue_percentage is overdue_incidents /
\* total_incidents * 100, a number of [0, 100]: the denominator is never 0.
C20_TeamTrendTotalsAndPercentage ==
    (call.op = "analyze_team_trends" /\ call.pre = "True")
    => \A k \in 1..Len(ReportedRows) :
         LET row == ReportedRows[k]
             members == RecordsOfTeamMonth(processed_data, row.assigned_team, row.month_year)
         IN  /\ row.total_incidents >= 1
             /\ row.total_incidents = Cardinality(members)
             /\ row.overdue_incidents
                  = Cardinality({r \in members :
                                   Field(processed_data, r, "is_overdue") = Bool(TRUE)})
             /\ row.overdue_incidents <= row.total_incidents
             /\ row.overdue_percentage.den > 0
             /\ 0 <= row.overdue_percentage.num
             /\ row.overdue_percentage.num <= 100 * row.overdue_percentage.den
             /\ row.overdue_percentage.num * row.total_incidents
                  = row.overdue_incidents * 100 * row.overdue_percentage.den

----------------------------------------------------------------------------
(* Properties of the nine analyzer operations (SpecAnalyzers) *)

\* the title of a record names technical debt
NamesDebt(data, rec) ==
    LET c == rec[TheCol(data, "title")]
    IN  /\ c.t = "text"
        /\ \E word \in {tech_debt_keywords[k] : k \in 1..Len(tech_debt_keywords)} :
              word \in KeywordsAnyCase[c.s]

DebtRecords(data) == SelectSeq(data.rows, LAMBDA rec : NamesDebt(data, rec))

\* C21: on a normalized dataset identify_tech_debt_incidents returns exactly
\* the records whose title contains a tech-debt keyword in any case, in
\* dataset order, each of them a record of the dataset; and
\* total_debt_percentage is 100 * subset size / dataset size, between 0 and
\* 100, and 0 for a dataset without records.
C21_TechDebtSubsetAndPercentage ==
    /\ (call.op = "identify_tech_debt_incidents" /\ call.pre = "True") =>
          /\ report.out.rows = DebtRecords(processed_data)
          /\ \A k \in 1..Len(report.out.rows) :
                \E r \in 1..NRows(processed_data) :
                    processed_data.rows[r] = report.out.rows[k]
    /\ (call.op = "calculate_tech_debt_indicators" /\ call.pre = "True"
          /\ ~report.out.raised) =>
          LET pct == report.out.rows[1].total_debt_percentage
              n == NRows(processed_data)
              d == Len(DebtRecords(processed_data))
          IN  /\ report.out.rows[1].debt_incidents = DebtRecords(processed_data)
              /\ pct.den > 0 /\ 0 <= pct.num /\ pct.num <= 100 * pct.den
              /\ n = 0 => pct.num = 0
              /\ n > 0 => pct.num * n = 100 * d * pct.den

\* half of the records of a dataset name technical debt, one of them in
\* capitals only
C21_Witness ==
    /\ call.op = "calculate_tech_debt_indicators" /\ call.pre = "True"
    /\ ~report.out.raised
    /\ report.out.rows[1].total_debt_percentage = [num |-> 50, den |-> 1]
    /\ Len(report.out.rows[1].debt_incidents) = 1

AnalyzerOps ==
    {"get_top_recurring_issues", "analyze_sla_performance", "analyze_team_trends",
     "get_team_performance_summary", "identify_tech_debt_incidents",
     "calculate_tech_debt_indicators", "get_monthly_trends", "get_category_distribution",
     "get_priority_analysis"}

\* the outcome is None, a table without rows, or the dict of a dataset
\* without tech-debt incidents
EmptyOrAbsent(out) ==
    /\ ~out.raised
    /\ \/ out.none
       \/ out.rows = <<>>
       \/ /\ report.op = "calculate_tech_debt_indicators"
          /\ out.rows[1].debt_incidents = <<>>
          /\ out.rows[1].debt_by_team = <<>>
          /\ out.rows[1].debt_trend = <<>>
          /\ out.rows[1].total_debt_percentage.num = 0

\* C22: every analyzer operation called on a dataset that is None or has no
\* record returns an empty or absent result and raises no exception.
C22_NoDataGivesEmptyResult ==
    (call.op \in AnalyzerOps /\ NoData(processed_data)) => EmptyOrAbsent(report.out)

\* C23: on every dataset a successful preprocess_data produced no analyzer
\* operation raises an exception.
C23_NoAnalyzerRaises ==
    (call.op \in AnalyzerOps /\ call.pre = "True") => ~report.out.raised

\* C24: a step that is an analyzer call leaves processed_data as it was:
\* the same records, the same fields, the same order.
C24_AnalyzersLeaveDataset ==
    [][call'.op \in AnalyzerOps => processed_data' = processed_data]_vars

\* identify_tech_debt_incidents returned fewer records than the dataset
\* holds after it
C24_Witness ==
    /\ call.op = "identify_tech_debt_incidents" /\ call.pre = "True"
    /\ NRows(processed_data) = 2 /\ Len(report.out.rows) = 1

\* the records of the dataset with the given texts in the given fields
RecordsKeyed(by, key) ==
    {r \in 1..NRows(processed_data) :
        \A k \in 1..Len(by) : Field(processed_data, r, by[k]) = Text(key[k])}

\* the records none of whose given fields is null
RecordsWithKeys(by) ==
    {r \in 1..NRows(processed_data) :
        \A k \in 1..Len(by) : ~IsNull(Field(processed_data, r, by[k]))}

\* the rows of the report that count record r: those of its key, when the
\* count of the row covers it
CountingRows(by, count, r) ==
    {k \in 1..Len(report.out.rows) :
        /\ \A i \in 1..Len(by) :
              Field(processed_data, r, by[i]) = Text(report.out.rows[k][by[i]])
        /\ report.out.rows[k][count]
              = Cardinality(RecordsKeyed(by, <<report.out.rows[k][by[1]]>>
                                \o (IF Len(by) = 2 THEN <<report.out.rows[k][by[2]]>>
                                    ELSE <<>>)))}

RECURSIVE SumColumn(_, _, _)
SumColumn(rows, column, k) ==
    IF k > Len(rows) THEN 0 ELSE rows[k][column] + SumColumn(rows, column, k + 1)

\* get_monthly_trends: a record without month_year is counted in no row,
\* every other record in exactly one, and the counts add up to the number
\* of records with a month_year
MonthlyCountsEveryRecordOnce ==
    (call.op = "get_monthly_trends" /\ call.pre = "True" /\ ~report.out.raised
        /\ ~report.out.none)
    => /\ \A r \in 1..NRows(processed_data) :
             Cardinality(CountingRows(<<"month_year">>, "incident_count", r))
               = IF r \in RecordsWithKeys(<<"month_year">>) THEN 1 ELSE 0
       /\ SumColumn(report.out.rows, "incident_count", 1)
             = Cardinality(RecordsWithKeys(<<"month_year">>))

\* analyze_team_trends: a record without assigned_team or month_year is
\* counted in no row, every other record in exactly one
TeamTrendsCountEveryRecordOnce ==
    (call.op = "analyze_team_trends" /\ call.pre = "True" /\ ~report.out.raised
        /\ ~report.out.none)
    => \A r \in 1..NRows(processed_data) :
          Cardinality(CountingRows(<<"assigned_team", "month_year">>, "total_incidents", r))
            = IF r \in RecordsWithKeys(<<"assigned_team", "month_year">>) THEN 1 ELSE 0

\* C26: a record with a null grouping key is counted in no row of
\* get_monthly_trends and of analyze_team_trends, every record with non-null
\* grouping keys is counted in exactly one row, and the counts of
\* get_monthly_trends sum to the number of records with a month_year.
C26_NullKeysLeaveGroupsOnly ==
    MonthlyCountsEveryRecordOnce /\ TeamTrendsCountEveryRecordOnce

----------------------------------------------------------------------------
(* Properties of repeated dashboard runs (SpecRerun) *)

----------------------------------------------------------------------------
(* Properties of HealthChecker.wait_for_app_start (SpecHealth) *)

Gets == SelectSeq(health.log, LAMBDA e : e.event = "get")
Sleeps == SelectSeq(health.log, LAMBDA e : e.event = "sleep")
Answered200(e) == e.event = "get" /\ ~e.raised /\ e.status_code = 200

\* at most retry_count requests; True exactly at the first 200, which ends
\* the requests; False after retry_count requests without a 200, and without
\* any request when retry_count is 0; a delay only between two requests
BoundedAttempts ==
    /\ Len(Gets) <= health.retry_count
    /\ \A i \in 1..Len(health.log) :
          Answered200(health.log[i]) => (i = Len(health.log) /\ health.ret = "True")
    /\ health.ret = "True" =>
          (health.log # <<>> /\ Answered200(health.log[Len(health.log)]))
    /\ health.ret = "False" =>
          /\ Len(Gets) = health.retry_count
          /\ \A i \in 1..Len(health.log) : ~Answered200(health.log[i])
    /\ \A i \in 1..Len(health.log) :
          health.log[i].event = "sleep" =>
             /\ i > 1 /\ health.log[i - 1].event = "get"
             /\ health.pc = "done" => (i < Len(health.log) /\ health.log[i + 1].event = "get")
    /\ health.waited = retry_delay * Len(Sleeps)
    /\ (health.pc = "done") <=> (health.ret # "none")

\* C30: wait_for_app_start terminates, after at most retry_count requests:
\* it returns True at the first attempt answered 200 and sends nothing
\* after it, returns False after retry_count attempts none of which was
\* answered 200 (at once when retry_count is 0), and sleeps retry_delay only
\* between two attempts, never after the last one.
C30_WaitForAppStartTerminates ==
    /\ []BoundedAttempts
    /\ <>(health.pc = "done")

\* all five attempts of the default retry_count failed, with four delays
C30_Witness ==
    /\ health.ret = "False"
    /\ health.retry_count = MaxRetries
    /\ Len(Gets) = MaxRetries
    /\ Len(Sleeps) = MaxRetries - 1


====
